---- MODULE Spec2Model ----
(***************************************************************************)
(* A model of the reverse-mode differentiation pass of                     *)
(* apps/autoscheduler/Derivative.cpp and of the Scope symbol table it      *)
(* relies on (Scope.h).                                                    *)
(*                                                                         *)
(* Three specifications share the module's variables:                      *)
(*   SpecScope    the Scope<T> / SmallStack<T> operations;                 *)
(*   Spec         propagate_adjoints: the entry checks and the forward     *)
(*                overwrite-detection pass over one computation;           *)
(*   SpecScatter  the scatter canonicalization of one call site            *)
(*                (ReverseAccumulationVisitor::visit of a Call node).      *)
(* Each specification keeps the variables of the others at their idle      *)
(* values.                                                                 *)
(***************************************************************************)
EXTENDS Integers, Sequences, FiniteSets, TLC

(***************************************************************************)
(* Bounds of the model.                                                    *)
(***************************************************************************)
\* most bindings alive at once, over both Scope objects
MaxBindings == 3
\* the values bound to names are 1..MaxVal
MaxVal == 2

(***************************************************************************)
(* Generic helpers.                                                        *)
(***************************************************************************)
Front(s) == SubSeq(s, 1, Len(s) - 1)

Last(s) == s[Len(s)]

\* a finite map with one key set (std::map::operator[] assignment)
MapPut(m, k, v) == [x \in (DOMAIN m) \cup {k} |-> IF x = k THEN v ELSE m[x]]

\* a finite map with one key removed (std::map::erase)
MapErase(m, k) == [x \in (DOMAIN m) \ {k} |-> m[x]]

EmptyMap == [x \in {} |-> 0]

(***************************************************************************)
(* Scope.h : SmallStack<T>                                                 *)
(***************************************************************************)
\* T(): the value-initialised T that pop() leaves in _top
DefaultT == 0

Values == 1 .. MaxVal

Names == {"x", "y"}

\* SmallStack(): _empty(true)
NewSmallStack == [top |-> DefaultT, rest |-> <<>>, empty |-> TRUE]

SmallStackPop(s) ==
    IF s.rest = <<>>
    THEN [top |-> DefaultT, rest |-> <<>>, empty |-> TRUE]
    ELSE [top |-> Last(s.rest), rest |-> Front(s.rest), empty |-> s.empty]

\* push() that forgets to save the old top in _rest
SmallStackPushLosesTop(s, t) ==
    [top |-> t, rest |-> s.rest, empty |-> FALSE]

SmallStackPush(s, t) ==
    [top   |-> t,
     rest  |-> IF s.empty THEN s.rest ELSE Append(s.rest, s.top),
     empty |-> FALSE]

SmallStackTop(s) == s.top

SmallStackEmpty(s) == s.empty

\* number of live elements of a SmallStack
SmallStackSize(s) == IF s.empty THEN 0 ELSE Len(s.rest) + 1

(***************************************************************************)
(* Scope.h : Scope<T>.  Two Scope objects exist: CHILD, whose              *)
(* containing_scope is either null or PARENT, and PARENT (no parent).      *)
(***************************************************************************)
CHILD == "child"

PARENT == "parent"

ScopeIds == {CHILD, PARENT}

NULL == "null"

\* the result of a get() that ends in internal_error
FATAL == [fatal |-> TRUE, v |-> 0]

\* the result of a contains() that ends in a failed internal_assert
FATALB == [fatal |-> TRUE, v |-> FALSE]

\* a lookup that returns v
Ret(v) == [fatal |-> FALSE, v |-> v]

VARIABLES
    m_table,            \* [ScopeIds -> map name -> SmallStack]  (std::map)
    o_table,            \* [ScopeIds -> map name -> SmallStack]  (std::unordered_map)
    containing_scope,   \* [ScopeIds -> ScopeIds \cup {NULL}]
    scopeFatal,         \* "none", or the operation that hit a fatal error
    live,               \* history: per scope and name, the pushes not yet popped
    lastPush,           \* history: <<scope, name>> of the push just made, or NoPush
    obsBefore,          \* history: what the scope showed before that push
    roundTrip,          \* history: <<scope, name>> when the last two operations
                        \* were push(name, v); pop(name) on scope, or NoPush
    swapped             \* history: some swap has been made

scopeVars == <<m_table, o_table, containing_scope, scopeFatal,
               live, lastPush, obsBefore, roundTrip, swapped>>

\* the state of the differentiation pass (Derivative.cpp)
VARIABLES
    prog,               \* f: [pure, updates, rdom]
    adjDims,            \* adjoint.dimensions()
    nBounds,            \* output_bounds.size()
    pc,                 \* where propagate_adjoints is
    func_id,            \* loop variables of the detection pass
    update_id,
    boxes,              \* left-hand-side Box of each update of the current Func
    non_overwriting_scans,
    is_forward_overwrite_detection_phase,
    err,                \* the error raised: [kind, func], kind "none" if none
    det,                \* the locals of the last update analysed
    output_box,
    adjoint_funcs,      \* map FuncKey -> accumulator
    is_self_referencing_phase,
    is_current_non_overwriting_scan,
    log                 \* history: what the reverse pass did, in order

\* the state only the reverse pass writes
revVars == <<is_self_referencing_phase, is_current_non_overwriting_scan, log>>

passVars == <<prog, adjDims, nBounds, pc, func_id, update_id, boxes,
              non_overwriting_scans, is_forward_overwrite_detection_phase,
              err, det, output_box, adjoint_funcs, revVars>>

\* the state of one visit of a call of a Func in the reverse pass
\* (the canonicalization of the scatter), run twice on the same call
VARIABLES
    site,               \* the call visited: [cur_args, cur_bounds, target_args, lhs, adjoint, scan]
    rdoms,              \* the ReductionDomains alive: sequence of [vars, pred, addr]
    spc,                \* where visit(const Call *) is
    sc,                 \* its locals: lhs, adjoint, canonicalized, ...
    run,                \* 1 or 2: the run of the pass
    first,              \* the update the first run produced, or NoResult
    func_to_update,     \* the accumulator the call scatters into: [args, pure, updates]
    prev_func           \* history: the accumulator when the visit began

\* the accumulator and its history
updVars == <<func_to_update, prev_func>>

scatVars == <<site, rdoms, spc, sc, run, first, updVars>>

\* the state of the expression-level traversal of one update step
VARIABLES
    dag,                \* the expression nodes of the step: node id -> node
    output_exprs,       \* the root node of every tuple component
    leaf_values,        \* the value of g(..) and f(..) at the sample point
    step,               \* [k, scan, phase1]: current_update_id and the flags
    expr_list,          \* the sorted nodes of all components
    it,                 \* position of the reverse iterator in expr_list
    expr_adjoints,      \* map node id -> adjoint expression
    epc,                \* where the step is
    visits,             \* history: every accept(), with what it found and pushed
    scatters            \* history: every update added to an accumulator

exprVars == <<dag, output_exprs, leaf_values, step, expr_list, it,
              expr_adjoints, epc, visits, scatters>>

\* what each specification leaves alone
outsideScope == <<passVars, scatVars, exprVars>>

outsidePass == <<scopeVars, scatVars, exprVars>>

outsideScatter == <<scopeVars, passVars, exprVars>>

outsideExpr == <<scopeVars, passVars, scatVars>>

\* the assertion every lookup starts with:
\* internal_assert((m_iter == m_table.end()) == (o_iter == o_table.end()))
TablesAgree(s, name) == (name \in DOMAIN m_table[s]) <=> (name \in DOMAIN o_table[s])

\* o_iter == o_table.end() || o_iter->second.empty()
MissHere(s, name) ==
    IF name \notin DOMAIN o_table[s] THEN TRUE
    ELSE SmallStackEmpty(o_table[s][name])

RECURSIVE Get(_, _)
Get(s, name) ==
    IF ~TablesAgree(s, name) THEN FATAL
    ELSE IF MissHere(s, name)
         THEN IF containing_scope[s] # NULL
              THEN Get(containing_scope[s], name)
              ELSE FATAL
         ELSE Ret(SmallStackTop(o_table[s][name]))

\* contains() that forgets the containing scope
ContainsNoFallback(s, name) ==
    IF ~TablesAgree(s, name) THEN FATALB ELSE Ret(~MissHere(s, name))

RECURSIVE Contains(_, _)
Contains(s, name) ==
    IF ~TablesAgree(s, name) THEN FATALB
    ELSE IF MissHere(s, name)
         THEN IF containing_scope[s] # NULL
              THEN Contains(containing_scope[s], name)
              ELSE Ret(FALSE)
         ELSE Ret(TRUE)

\* what a client can observe of scope s: contains and get for every name
Obs(s) == [n \in Names |-> [c |-> Contains(s, n), g |-> Get(s, n)]]

NoPush == <<NULL, NULL>>

NoObs == [n \in Names |-> [c |-> Ret(FALSE), g |-> FATAL]]

StackOf(tbl, name) == IF name \in DOMAIN tbl THEN tbl[name] ELSE NewSmallStack

\* bindings alive in the two scopes together
TotalBindings ==
    LET n(s, nm) == SmallStackSize(StackOf(o_table[s], nm))
    IN  n(CHILD, "x") + n(CHILD, "y") + n(PARENT, "x") + n(PARENT, "y")

\* m_table[name].push(value)
TablePush(tbl, name, value) ==
    MapPut(tbl, name, SmallStackPush(StackOf(tbl, name), value))

\* pop() that leaves the emptied stack in the table
TablePopKeepsEmpty(tbl, name) ==
    MapPut(tbl, name, SmallStackPop(tbl[name]))

\* iter->second.pop(); if (iter->second.empty()) table.erase(iter)
TablePop(tbl, name) ==
    LET popped == SmallStackPop(tbl[name])
    IN  IF SmallStackEmpty(popped) THEN MapErase(tbl, name)
        ELSE MapPut(tbl, name, popped)

\* iter->second.top_ref() = value
TableReplace(tbl, name, value) ==
    MapPut(tbl, name, [tbl[name] EXCEPT !.top = value])

ScopeInit ==
    /\ m_table = [s \in ScopeIds |-> EmptyMap]
    /\ o_table = [s \in ScopeIds |-> EmptyMap]
    /\ containing_scope = [s \in ScopeIds |-> NULL]
    /\ scopeFatal = "none"
    /\ live = [s \in ScopeIds |-> [n \in Names |-> <<>>]]
    /\ lastPush = NoPush
    /\ obsBefore = NoObs
    /\ roundTrip = NoPush
    /\ swapped = FALSE

ScopeIdle == ScopeInit

\* Scope::set_containing_scope, called on CHILD
SetContainingScope(p) ==
    /\ scopeFatal = "none"
    /\ p \in {NULL, PARENT}
    /\ containing_scope' = [containing_scope EXCEPT ![CHILD] = p]
    /\ lastPush' = NoPush
    /\ obsBefore' = NoObs
    /\ roundTrip' = NoPush
    /\ UNCHANGED <<m_table, o_table, scopeFatal, live>>
    /\ UNCHANGED swapped
    /\ UNCHANGED outsideScope

\* Scope::push(name, value)
Push(s, name, value) ==
    /\ scopeFatal = "none"
    /\ TotalBindings < MaxBindings
    /\ m_table' = [m_table EXCEPT ![s] = TablePush(@, name, value)]
    /\ o_table' = [o_table EXCEPT ![s] = TablePush(@, name, value)]
    /\ live' = [live EXCEPT ![s][name] = Append(@, [v |-> value, replaced |-> FALSE])]
    /\ lastPush' = <<s, name>>
    /\ obsBefore' = Obs(s)
    /\ roundTrip' = NoPush
    /\ UNCHANGED <<containing_scope, scopeFatal>>
    /\ UNCHANGED swapped
    /\ UNCHANGED outsideScope

\* Scope::pop(name), the name found in the tables
Pop(s, name) ==
    /\ scopeFatal = "none"
    /\ TablesAgree(s, name)
    /\ name \in DOMAIN m_table[s]
    /\ m_table' = [m_table EXCEPT ![s] = TablePop(@, name)]
    /\ o_table' = [o_table EXCEPT ![s] = TablePop(@, name)]
    /\ live' = [live EXCEPT ![s][name] = Front(@)]
    /\ roundTrip' = IF lastPush = <<s, name>> THEN lastPush ELSE NoPush
    /\ obsBefore' = IF lastPush = <<s, name>> THEN obsBefore ELSE NoObs
    /\ lastPush' = NoPush
    /\ UNCHANGED <<containing_scope, scopeFatal>>
    /\ UNCHANGED swapped
    /\ UNCHANGED outsideScope

\* Scope::pop(name), an internal_assert fails: the program aborts
PopFatal(s, name) ==
    /\ scopeFatal = "none"
    /\ \/ ~TablesAgree(s, name)
       \/ name \notin DOMAIN m_table[s]
    /\ scopeFatal' = "pop"
    /\ lastPush' = NoPush
    /\ obsBefore' = NoObs
    /\ roundTrip' = NoPush
    /\ UNCHANGED <<m_table, o_table, containing_scope, live>>
    /\ UNCHANGED swapped
    /\ UNCHANGED outsideScope

\* Scope::replace(name, value), the name bound in this scope
Replace(s, name, value) ==
    /\ scopeFatal = "none"
    /\ TablesAgree(s, name)
    /\ ~MissHere(s, name)
    /\ m_table' = [m_table EXCEPT ![s] = TableReplace(@, name, value)]
    /\ o_table' = [o_table EXCEPT ![s] = TableReplace(@, name, value)]
    /\ live' = [live EXCEPT ![s][name] =
                   [@ EXCEPT ![Len(@)] = [v |-> value, replaced |-> TRUE]]]
    /\ lastPush' = NoPush
    /\ obsBefore' = NoObs
    /\ roundTrip' = NoPush
    /\ UNCHANGED <<containing_scope, scopeFatal>>
    /\ UNCHANGED swapped
    /\ UNCHANGED outsideScope

\* Scope::replace(name, value), the name not bound in this scope: internal_error
ReplaceFatal(s, name) ==
    /\ scopeFatal = "none"
    /\ \/ ~TablesAgree(s, name)
       \/ MissHere(s, name)
    /\ scopeFatal' = "replace"
    /\ lastPush' = NoPush
    /\ obsBefore' = NoObs
    /\ roundTrip' = NoPush
    /\ UNCHANGED <<m_table, o_table, containing_scope, live>>
    /\ UNCHANGED swapped
    /\ UNCHANGED outsideScope

\* what swap does to a member of the two scopes
SwapMember(member, a, b) == [member EXCEPT ![a] = member[b], ![b] = member[a]]

\* a swap that leaves the unordered tables where they are
SwapUnorderedSkipped(tbls, a, b) == tbls

\* o_table.swap(other.o_table)
SwapUnordered(tbls, a, b) == SwapMember(tbls, a, b)

\* m_table.swap(other.m_table)
SwapOrdered(tbls, a, b) == SwapMember(tbls, a, b)

\* Scope::swap(other), called on a with other = b.  It is run on two scopes
\* of which neither contains the other: swapping a scope with its own
\* containing scope would make a scope its own container.
Swap(a, b) ==
    /\ scopeFatal = "none"
    /\ a # b
    /\ containing_scope[a] # b /\ containing_scope[b] # a
    /\ m_table' = SwapOrdered(m_table, a, b)
    /\ o_table' = SwapUnordered(o_table, a, b)
    /\ containing_scope' = SwapMember(containing_scope, a, b)
    /\ live' = SwapMember(live, a, b)
    /\ swapped' = TRUE
    /\ lastPush' = NoPush
    /\ obsBefore' = NoObs
    /\ roundTrip' = NoPush
    /\ UNCHANGED scopeFatal
    /\ UNCHANGED outsideScope

ScopeNext ==
    \/ \E p \in {NULL, PARENT} : SetContainingScope(p)
    \/ \E a \in ScopeIds, b \in ScopeIds : Swap(a, b)
    \/ \E s \in ScopeIds, n \in Names, v \in Values : Push(s, n, v)
    \/ \E s \in ScopeIds, n \in Names : Pop(s, n)
    \/ \E s \in ScopeIds, n \in Names : PopFatal(s, n)
    \/ \E s \in ScopeIds, n \in Names, v \in Values : Replace(s, n, v)
    \/ \E s \in ScopeIds, n \in Names : ReplaceFatal(s, n)


(***************************************************************************)
(* Derivative.cpp : the expressions of the model.                          *)
(*                                                                         *)
(* An index expression (an argument of a call or of an update's left-hand  *)
(* side) is affine: a base (a pure variable "x" or "y", the reduction      *)
(* variable "r", or "c" for none) plus a constant offset.  A value         *)
(* expression is a tree of const, call, add, sub and mul nodes; a node is  *)
(* identified by its path from the root (1 = operand a, 2 = operand b).    *)
(***************************************************************************)
\* largest constant used as an index
MaxConst == 1

Idx(b, o) == [op |-> "idx", b |-> b, o |-> o]

Const(c) == [op |-> "const", c |-> c]

\* Call::make(function, args): call_type is "halide" or "image"
CallTo(fn, ct, args) == [op |-> "call", fn |-> fn, ct |-> ct, args |-> args]

Bin(op, a, b) == [op |-> op, a |-> a, b |-> b]

\* operator-(Expr): 0 - e
Neg(e) == Bin("sub", Const(0), e)

IsBin(e) == e.op \in {"add", "sub", "mul", "div", "lt"}

RECURSIVE NodeAt(_, _)
NodeAt(e, p) ==
    IF p = <<>> THEN e
    ELSE NodeAt(IF p[1] = 1 THEN e.a ELSE e.b, Tail(p))

\* sort_expressions: the nodes of e, operands before the node that uses
\* them; the arguments of a call to a Func or a buffer are not listed
RECURSIVE SortExpressions(_, _)
SortExpressions(e, p) ==
    IF IsBin(e)
    THEN SortExpressions(e.a, Append(p, 1)) \o SortExpressions(e.b, Append(p, 2)) \o <<p>>
    ELSE <<p>>

\* is_calling_function(func_name, expr, ...): expr calls the Func func_name
RECURSIVE IsCallingFunc(_, _)
IsCallingFunc(fn, e) ==
    IF IsBin(e) THEN IsCallingFunc(fn, e.a) \/ IsCallingFunc(fn, e.b)
    ELSE e.op = "call" /\ e.fn = fn

\* is_calling_function(expr, ...): expr calls some Func or buffer
RECURSIVE IsCallingAny(_)
IsCallingAny(e) ==
    IF IsBin(e) THEN IsCallingAny(e.a) \/ IsCallingAny(e.b)
    ELSE e.op = "call"

\* the index expression uses the reduction variable
IdxUsesRVar(i) == i.b = "r"

\* extract_rdom(expr) is defined: expr uses a reduction variable
RECURSIVE UsesRVar(_)
UsesRVar(e) ==
    IF IsBin(e) THEN UsesRVar(e.a) \/ UsesRVar(e.b)
    ELSE IF e.op = "call" THEN \E k \in 1 .. Len(e.args) : IdxUsesRVar(e.args[k])
    ELSE FALSE

\* simplify(): constants are folded and the identities x+0, 0+x, x-0, x*1,
\* 1*x, x*0, 0*x, x/1 are applied, bottom-up, also inside the arguments of a
\* call
RECURSIVE Simplify(_)
Simplify(e) ==
    IF e.op = "call"
    THEN [e EXCEPT !.args = [i \in DOMAIN e.args |-> Simplify(e.args[i])]]
    ELSE IF ~IsBin(e) THEN e
    ELSE LET a == Simplify(e.a)
             b == Simplify(e.b)
             ca == a.op = "const"
             cb == b.op = "const"
         IN  CASE e.op = "add" ->
                    IF ca /\ cb THEN Const(a.c + b.c)
                    ELSE IF ca /\ a.c = 0 THEN b
                    ELSE IF cb /\ b.c = 0 THEN a
                    ELSE Bin("add", a, b)
               [] e.op = "sub" ->
                    IF ca /\ cb THEN Const(a.c - b.c)
                    ELSE IF cb /\ b.c = 0 THEN a
                    ELSE Bin("sub", a, b)
               [] e.op = "mul" ->
                    IF ca /\ cb THEN Const(a.c * b.c)
                    ELSE IF (ca /\ a.c = 0) \/ (cb /\ b.c = 0) THEN Const(0)
                    ELSE IF ca /\ a.c = 1 THEN b
                    ELSE IF cb /\ b.c = 1 THEN a
                    ELSE Bin("mul", a, b)
               [] e.op = "div" ->
                    IF ca /\ cb /\ b.c > 0 THEN Const(a.c \div b.c)
                    ELSE IF cb /\ b.c = 1 THEN a
                    ELSE Bin("div", a, b)
               [] OTHER -> Bin(e.op, a, b)

\* is_const(e, value)
IsConst(e, v) == e.op = "const" /\ e.c = v

\* can_prove(a != b) for two index expressions: true when they have the same
\* base and different offsets (two different constants, or v + i and v + j)
ProvablyDifferent(i, j) == i.b = j.b /\ i.o # j.o

(***************************************************************************)
(* Derivative.cpp : the differentiated program.                            *)
(*                                                                         *)
(* The call graph is g -> f -> h in realization order: g(x) = in(x) reads  *)
(* the buffer "in", f(x, y) has a pure definition and a list of update     *)
(* definitions, and the output h(x, y) = f(x, y).  One reduction domain    *)
(* with the single variable r serves the updates of f.                     *)
(***************************************************************************)
\* most update definitions of f that precede its last one
MaxPriors == 1
\* the reduction variable starts at 0 .. MaxRMin
MaxRMin == 1
\* extent of the reduction domain
RExtent == 2
\* dimensionalities tried for the seed and the bounds list
MaxDims == 3

X == Idx("x", 0)

Y == Idx("y", 0)

\* the constants and the forms r + o an index takes
ConstIdx == {Idx("c", c) : c \in 0 .. MaxConst}

RVarIdx == {Idx("r", o) : o \in 0 .. MaxConst}

\* second coordinate of an update's left-hand side (the first is always x)
Lhs2 == {Y} \cup ConstIdx \cup RVarIdx

\* second coordinate of a self reference f(x, a) in an update writing f(x, l2)
SelfArg2(l2) == {l2, Idx("c", 0), Idx("r", 0)}

SelfCall(a) == CallTo("f", "halide", <<X, a>>)

GCall(b) == CallTo("g", "halide", <<b>>)

\* right-hand sides: S + G, 2*S + G, S*S, 2*S, S*G, G and S - S
\* for S = f(x, a) and G = g(b)
RhsShapes(a, b) ==
    {Bin("add", SelfCall(a), GCall(b)),
     Bin("add", Bin("mul", Const(2), SelfCall(a)), GCall(b)),
     Bin("mul", SelfCall(a), SelfCall(a)),
     Bin("mul", Const(2), SelfCall(a)),
     Bin("mul", SelfCall(a), GCall(b)),
     GCall(b),
     Bin("sub", SelfCall(a), SelfCall(a))}

Update(l2, value) == [args |-> <<X, l2>>, value |-> value]

\* the last update definition of f
MainUpdates ==
    UNION {{Update(l2, v) : v \in UNION {RhsShapes(a, b) : a \in SelfArg2(l2),
                                                           b \in {X, Idx("r", 0)}}}
           : l2 \in Lhs2}

\* the update definitions before it: f(x, c) = g(x) and f(x, r) = g(x)
PriorUpdates ==
    {Update(l2, GCall(X)) : l2 \in ConstIdx \cup {Idx("r", 0)}}

RECURSIVE SeqsUpTo(_, _)
SeqsUpTo(S, n) ==
    IF n = 0 THEN {<<>>}
    ELSE LET shorter == SeqsUpTo(S, n - 1)
         IN  shorter \cup {Append(q, e) : q \in shorter, e \in S}

UpdateLists ==
    {<<>>} \cup {Append(q, u) : q \in SeqsUpTo(PriorUpdates, MaxPriors), u \in MainUpdates}

\* the pure definition of f: a constant, or a call of g
PureDefs == {Const(0), GCall(X)}

RDoms == {[min |-> m, extent |-> RExtent] : m \in 0 .. MaxRMin}

UpdateUsesRVar(u) ==
    UsesRVar(u.value) \/ \E k \in 1 .. Len(u.args) : IdxUsesRVar(u.args[k])

FuncNames == <<"g", "f", "h">>

\* the Func called name, as the pass sees it
FuncOf(name) ==
    CASE name = "g" -> [name |-> "g", args |-> <<"x">>,
                        pure |-> CallTo("in", "image", <<X>>), updates |-> <<>>]
      [] name = "f" -> [name |-> "f", args |-> <<"x", "y">>,
                        pure |-> prog.pure, updates |-> prog.updates]
      [] name = "h" -> [name |-> "h", args |-> <<"x", "y">>,
                        pure |-> CallTo("f", "halide", <<X, Y>>), updates |-> <<>>]

\* realization_order: producers first, the output last
Funcs == [i \in 1 .. Len(FuncNames) |-> FuncOf(FuncNames[i])]

OutputFunc == Funcs[Len(Funcs)]

(***************************************************************************)
(* Derivative.cpp : propagate_adjoints, the forward overwrite detection.   *)
(***************************************************************************)
Interval(lo, hi) == [min |-> lo, max |-> hi]

\* Expr r_max = simplify(r.min + r.extent + 1)
RMax(rdom) == rdom.min + rdom.extent + 1

\* bounds_of_expr_in_scope(arg, scope), the scope binding r to [r.min, r_max]
\* when arg uses r: r + o lies in [r.min + o, r_max + o]; a constant or a free
\* variable is a single point
BoundsOfExprInScope(arg, rdom) ==
    IF arg.b = "r"
    THEN Interval(Idx("c", rdom.min + arg.o), Idx("c", RMax(rdom) + arg.o))
    ELSE Interval(arg, arg)

\* the Box of the left-hand side of every update of func
LhsBoxes(func, rdom) ==
    [k \in 1 .. Len(func.updates) |->
        [d \in 1 .. Len(func.updates[k].args) |->
            BoundsOfExprInScope(func.updates[k].args[d], rdom)]]

\* can_prove(hi < lo) for two affine bounds
ProvablyLess(hi, lo) == hi.b = lo.b /\ hi.o < lo.o

\* boxes_overlap: the boxes overlap unless some dimension is provably disjoint
BoxesOverlap(a, b) ==
    ~ \E d \in 1 .. Len(a) :
          ProvablyLess(a[d].max, b[d].min) \/ ProvablyLess(b[d].max, a[d].min)

\* accumulate(stub, adjoint)
Accumulate(adj, p, e) ==
    IF p \in DOMAIN adj THEN MapPut(adj, p, Bin("add", adj[p], e))
    ELSE MapPut(adj, p, e)

\* visit(const Call *) of a Func or buffer in the detection phase
VisitCallDetect(st, n, adjoint, self) ==
    IF n.fn = self
    THEN [st EXCEPT !.selfadj = Simplify(Bin("add", @, adjoint)),
                    !.selfargs = Append(@, n.args)]
    ELSE st

\* visit(const Add *), visit(const Sub *), visit(const Mul *), visit(const Call *)
\* on the node at path p of root, in the detection phase
VisitDetect(st, root, p, self) ==
    LET n == NodeAt(root, p)
        adjoint == st.adj[p]
        pa == Append(p, 1)
        pb == Append(p, 2)
    IN  CASE n.op = "add" ->
               [st EXCEPT !.adj = Accumulate(Accumulate(@, pa, adjoint), pb, adjoint)]
          [] n.op = "sub" ->
               [st EXCEPT !.adj = Accumulate(Accumulate(@, pa, adjoint), pb, Neg(adjoint))]
          [] n.op = "mul" ->
               [st EXCEPT !.adj = Accumulate(Accumulate(@, pa, Bin("mul", adjoint, n.b)),
                                             pb, Bin("mul", adjoint, n.a))]
          [] n.op = "call" -> VisitCallDetect(st, n, adjoint, self)
          [] OTHER -> st

\* for (it = expr_list.rbegin(); it != expr_list.rend(); it++) it->accept(this)
RECURSIVE TraverseDetect(_, _, _, _, _)
TraverseDetect(st, root, list, i, self) ==
    IF i = 0 THEN st
    ELSE TraverseDetect(VisitDetect(st, root, list[i], self), root, list, i - 1, self)

\* an adjoint that deposits to a Func or a buffer references func itself
SelfRefInAdjoints(func, value, adj) ==
    \E p \in DOMAIN adj :
        NodeAt(value, p).op = "call" /\ IsCallingFunc(func.name, adj[p])

\* check 1 without the test of the pure definition
Check1ErrorBoxesOnly(func, k, bxs) ==
    \E j \in 1 .. (k - 1) : BoxesOverlap(bxs[k], bxs[j])

\* check 1 raises the error: the pure definition calls something, or the box
\* of an earlier update overlaps the box of update k
Check1Error(func, k, bxs) ==
    \/ IsCallingAny(func.pure)
    \/ \E j \in 1 .. (k - 1) : BoxesOverlap(bxs[k], bxs[j])

\* adjoints_used_by_others
AdjointsUsedByOthers(func, value, adj) ==
    \E p \in DOMAIN adj :
        NodeAt(value, p).op = "call" /\ NodeAt(value, p).fn # func.name

\* all_zero_or_one_self_adjoint
AllZeroOrOne(selfadj) == IsConst(selfadj, 0) \/ IsConst(selfadj, 1)

\* check 2 entered for every update with a reduction variable
Check2AppliesAnyAdjoint(selfadj, u) == UpdateUsesRVar(u)

\* !all_zero_or_one_self_adjoint && has_reduction_var
Check2Applies(selfadj, u) == ~AllZeroOrOne(selfadj) /\ UpdateUsesRVar(u)

\* is_not_overwriting that asks every coordinate to differ
IsNotOverwritingEveryCoordinate(selfargs, u) ==
    \A i \in 1 .. Len(selfargs) :
        \A d \in 1 .. Len(u.args) : ProvablyDifferent(selfargs[i][d], u.args[d])

\* is_not_overwriting: every recorded self reference provably differs from the
\* write location in some coordinate
IsNotOverwriting(selfargs, u) ==
    \A i \in 1 .. Len(selfargs) :
        \E d \in 1 .. Len(u.args) : ProvablyDifferent(selfargs[i][d], u.args[d])

\* check 2 with the negation of is_not_overwriting lost
Check2ErrorNegationLost(notOverwriting, used) == notOverwriting /\ used

\* if (!is_not_overwriting && adjoints_used_by_others) error()
Check2Error(notOverwriting, used) == ~notOverwriting /\ used

\* a scan remembered only when no other Func receives an adjoint
IsScanUnlessUsed(notOverwriting, used) == notOverwriting /\ ~used

\* if (is_not_overwriting) non_overwriting_scans.insert(...)
IsScan(notOverwriting, used) == notOverwriting

\* the body of the detection loop for update k (1-based) of func
DetectLocals(func, k, bxs) ==
    LET u == func.updates[k]
        list == SortExpressions(u.value, <<>>)
        st0 == [adj |-> (<<>> :> Const(1)), selfadj |-> Const(0), selfargs |-> <<>>]
        st == TraverseDetect(st0, u.value, list, Len(list), func.name)
        selfRef == SelfRefInAdjoints(func, u.value, st.adj)
        error1 == selfRef /\ Check1Error(func, k, bxs)
        used == AdjointsUsedByOthers(func, u.value, st.adj)
        applies2 == Check2Applies(st.selfadj, u)
        notOverwriting == IsNotOverwriting(st.selfargs, u)
        error2 == ~error1 /\ applies2 /\ Check2Error(notOverwriting, used)
    IN  [func |-> func.name, update |-> k - 1, boxes |-> bxs, adj |-> st.adj,
         selfadj |-> st.selfadj, selfargs |-> st.selfargs,
         error1 |-> error1, error2 |-> error2,
         scan |-> ~error1 /\ ~error2 /\ applies2 /\ IsScan(notOverwriting, used)]

NoErr == [kind |-> "none", class |-> "none", func |-> "none"]

\* user_error << "Can't take the gradients of " << func.name() << ...
OverwriteError(func) == [kind |-> "overwrite", class |-> "user", func |-> func.name]

\* user_assert(...) << "... dimensions must match"
DimsError == [kind |-> "dims", class |-> "user", func |-> "none"]

NoDet == [func |-> "none"]

\* the programs differentiated: the reduction domain varies only when used
Programs ==
    {[pure |-> pd, updates |-> ul, rdom |-> rd] :
        pd \in PureDefs, ul \in UpdateLists, rd \in RDoms}

ProgUsesRVar(pg) == \E k \in 1 .. Len(pg.updates) : UpdateUsesRVar(pg.updates[k])

\* FuncKey{name, update_id}
FuncKey(name, id) == <<name, id>>

\* the list output_bounds handed in: nBounds pairs (first, second)
OutputBounds == [i \in 1 .. nBounds |-> <<0, i>>]

PassInit ==
    /\ prog \in Programs
    /\ ~ProgUsesRVar(prog) => prog.rdom.min = 0
    /\ adjDims \in 1 .. MaxDims
    /\ nBounds \in 1 .. MaxDims
    \* inputs of the wrong dimensionality are tried on the programs with at
    \* most one update
    /\ Len(prog.updates) > 1 => (adjDims = 2 /\ nBounds = 2)
    /\ pc = "entry"
    /\ func_id = 0
    /\ update_id = 0
    /\ boxes = <<>>
    /\ non_overwriting_scans = {}
    /\ is_forward_overwrite_detection_phase = FALSE
    /\ err = NoErr
    /\ det = NoDet
    /\ output_box = <<>>
    /\ adjoint_funcs = EmptyMap
    /\ is_self_referencing_phase = FALSE
    /\ is_current_non_overwriting_scan = FALSE
    /\ log = <<>>

PassIdle ==
    /\ prog = [pure |-> Const(0), updates |-> <<>>, rdom |-> [min |-> 0, extent |-> RExtent]]
    /\ adjDims = 2
    /\ nBounds = 2
    /\ pc = "idle"
    /\ func_id = 0
    /\ update_id = 0
    /\ boxes = <<>>
    /\ non_overwriting_scans = {}
    /\ is_forward_overwrite_detection_phase = FALSE
    /\ err = NoErr
    /\ det = NoDet
    /\ output_box = <<>>
    /\ adjoint_funcs = EmptyMap
    /\ is_self_referencing_phase = FALSE
    /\ is_current_non_overwriting_scan = FALSE
    /\ log = <<>>

\* the user_asserts of propagate_adjoints(output, adjoint, output_bounds) that
\* check only the seed against the output
EntryChecksSeedOnly(outDims, aDims, nB) == outDims = aDims

\* the user_asserts of propagate_adjoints(output, adjoint, output_bounds)
EntryChecks(outDims, aDims, nB) == outDims = aDims /\ nB = aDims

\* propagate_adjoints(output, adjoint, output_bounds), up to the call of the
\* visitor
Entry ==
    /\ pc = "entry"
    /\ IF EntryChecks(Len(OutputFunc.args), adjDims, nBounds)
       THEN pc' = "sort" /\ err' = err
       ELSE pc' = "error" /\ err' = DimsError
    /\ UNCHANGED <<prog, adjDims, nBounds, func_id, update_id, boxes,
                   non_overwriting_scans, is_forward_overwrite_detection_phase,
                   det, output_box, adjoint_funcs>>
    /\ UNCHANGED revVars
    /\ UNCHANGED outsidePass

\* ReverseAccumulationVisitor::propagate_adjoints: the Funcs are sorted and
\* the detection phase begins
BeginDetection ==
    /\ pc = "sort"
    /\ is_forward_overwrite_detection_phase' = TRUE
    /\ non_overwriting_scans' = {}
    /\ func_id' = 0
    /\ pc' = "detect_func"
    /\ UNCHANGED <<prog, adjDims, nBounds, update_id, boxes, err, det,
                   output_box, adjoint_funcs>>
    /\ UNCHANGED revVars
    /\ UNCHANGED outsidePass

\* the head of the loop over the Funcs: the bounds of the left-hand sides
DetectFunc ==
    /\ pc = "detect_func"
    /\ func_id < Len(Funcs)
    /\ boxes' = LhsBoxes(Funcs[func_id + 1], prog.rdom)
    /\ update_id' = 0
    /\ pc' = "detect_update"
    /\ UNCHANGED <<prog, adjDims, nBounds, func_id, non_overwriting_scans,
                   is_forward_overwrite_detection_phase, err, det,
                   output_box, adjoint_funcs>>
    /\ UNCHANGED revVars
    /\ UNCHANGED outsidePass

\* the body of the loop over the updates of the current Func
DetectUpdate ==
    /\ pc = "detect_update"
    /\ update_id < Len(Funcs[func_id + 1].updates)
    /\ LET func == Funcs[func_id + 1]
           d == DetectLocals(func, update_id + 1, boxes)
       IN  /\ det' = d
           /\ IF d.error1 \/ d.error2
              THEN /\ pc' = "error"
                   /\ err' = OverwriteError(func)
                   /\ UNCHANGED <<non_overwriting_scans, update_id>>
              ELSE /\ pc' = pc
                   /\ err' = err
                   /\ update_id' = update_id + 1
                   /\ non_overwriting_scans' =
                          IF d.scan
                          THEN non_overwriting_scans \cup {FuncKey(func.name, update_id)}
                          ELSE non_overwriting_scans
    /\ UNCHANGED <<prog, adjDims, nBounds, func_id, boxes,
                   is_forward_overwrite_detection_phase, output_box, adjoint_funcs>>
    /\ UNCHANGED revVars
    /\ UNCHANGED outsidePass

\* the updates of the current Func are done: on to the next Func, or out of
\* the detection phase
DetectNextFunc ==
    /\ pc = "detect_update"
    /\ update_id = Len(Funcs[func_id + 1].updates)
    /\ func_id' = func_id + 1
    /\ IF func_id + 1 < Len(Funcs)
       THEN /\ pc' = "detect_func"
            /\ UNCHANGED is_forward_overwrite_detection_phase
       ELSE /\ pc' = "bounds"
            /\ is_forward_overwrite_detection_phase' = FALSE
    /\ UNCHANGED <<prog, adjDims, nBounds, update_id, boxes, non_overwriting_scans,
                   err, det, output_box, adjoint_funcs>>
    /\ UNCHANGED revVars
    /\ UNCHANGED outsidePass

\* an Interval that was default-constructed
DefaultInterval == Interval(Idx("neg_inf", 0), Idx("pos_inf", 0))

\* Box output_box; output_box.resize(n); then push_back for every pair
BoundsInference ==
    /\ pc = "bounds"
    /\ output_box' = [i \in 1 .. nBounds |-> DefaultInterval] \o
                     [i \in 1 .. nBounds |->
                         Interval(Idx("c", OutputBounds[i][1]), Idx("c", OutputBounds[i][2]))]
    /\ pc' = "stubs"
    /\ UNCHANGED <<prog, adjDims, nBounds, func_id, update_id, boxes,
                   non_overwriting_scans, is_forward_overwrite_detection_phase,
                   err, det, adjoint_funcs>>
    /\ UNCHANGED revVars
    /\ UNCHANGED outsidePass

\* the keys of the stubs: every Func with every update id from -1, and every
\* buffer with -1
StubKeys ==
    UNION {{FuncKey(Funcs[i].name, k) : k \in -1 .. Len(Funcs[i].updates) - 1}
           : i \in 1 .. Len(Funcs)}

BufferKeys == {FuncKey("in", -1)}

\* the identity of a Func object: what constructed it, and for which key
FuncId(by, key) == [by |-> by, key |-> key]

NoId == FuncId("none", FuncKey("none", -1))

\* an accumulator: a Func with its identity, its pure definition (init, of)
\* and the update definitions added to it
AdjointFunc(id, init, of, updates) ==
    [id |-> id, init |-> init, of |-> of, updates |-> updates]

\* stubs that seed the last update of every Func
StubSeedsEveryLast(key) ==
    AdjointFunc(FuncId("stub", key),
                IF key \notin BufferKeys
                   /\ \E i \in 1 .. Len(Funcs) :
                          key = FuncKey(Funcs[i].name, Len(Funcs[i].updates) - 1)
                THEN "seed" ELSE "zero",
                NoId, <<>>)

\* the stub of a key: the seed for the last update of the output, else zero
Stub(key) ==
    AdjointFunc(FuncId("stub", key),
                IF key \notin BufferKeys
                   /\ key = FuncKey(OutputFunc.name, Len(OutputFunc.updates) - 1)
                THEN "seed" ELSE "zero",
                NoId, <<>>)

\* "Create a stub for each function and each update", and for each buffer
AllocateStubs ==
    /\ pc = "stubs"
    /\ adjoint_funcs' = [key \in StubKeys \cup BufferKeys |-> Stub(key)]
    /\ func_id' = Len(Funcs) - 1
    /\ pc' = "reverse"
    /\ UNCHANGED <<prog, adjDims, nBounds, update_id, boxes,
                   non_overwriting_scans, is_forward_overwrite_detection_phase,
                   err, det, output_box>>
    /\ UNCHANGED revVars
    /\ UNCHANGED outsidePass


(***************************************************************************)
(* Derivative.cpp : propagate_adjoints, the reverse pass.                  *)
(*                                                                         *)
(* log records, in order, what the pass did: an event is                   *)
(*   [e, at, key, phase, site]                                             *)
(* with e one of "boundary", "step", "mask", "recreate", "scatter"; at the *)
(* step it happened in (HeadKey for the head of the loop over the Funcs),  *)
(* key the accumulator concerned, and for a scatter the phase (1 or 2) and *)
(* the call site (the path of the Call node).                              *)
(***************************************************************************)
Event(e, at, key, phase, node) ==
    [e |-> e, at |-> at, key |-> key, phase |-> phase, site |-> node]

\* the head of the loop body of a Func, before its first update step
HeadKey(func) == FuncKey(func.name, Len(func.updates))

\* func.name() + "_unbounded"
Unbounded(name) ==
    CASE name = "g" -> "g_unbounded"
      [] name = "f" -> "f_unbounded"
      [] name = "h" -> "h_unbounded"

\* add_boundary_condition(func_key): the accumulator is kept under the
\* unbounded key and replaced by its constant_exterior extension
AddBoundaryCondition(afs, key) ==
    MapPut(MapPut(afs, FuncKey(Unbounded(key[1]), key[2]), afs[key]),
           key,
           AdjointFunc(FuncId("boundary", key), "constant_exterior", afs[key].id, <<>>))

\* is_noop of mask_previous_update: every update argument is the pure
\* variable of its position
IsNoop(func, k) ==
    \A i \in 1 .. Len(func.args) : func.updates[k + 1].args[i] = Idx(func.args[i], 0)

\* mask_previous_update() that rebuilds the accumulator of (func, k) itself
MaskPreviousUpdateOfCurrent(afs, func, k) ==
    LET cur == FuncKey(func.name, k)
    IN  MapPut(afs, cur, AdjointFunc(FuncId("mask", cur), "zero", NoId, <<>>))

\* mask_previous_update(): the accumulator of (func, k - 1) becomes a new Func
\* that copies the accumulator of (func, k) and is zero at the update's
\* write location
MaskPreviousUpdate(afs, func, k) ==
    LET prev == FuncKey(func.name, k - 1)
        cur == afs[FuncKey(func.name, k)]
        zero == [kind |-> "zero", args |-> func.updates[k + 1].args]
    IN  MapPut(afs, prev,
               IF IsNoop(func, k)
               THEN AdjointFunc(FuncId("mask", prev), "zero", NoId, <<>>)
               ELSE AdjointFunc(FuncId("mask", prev), "copy", cur.id, <<zero>>))

\* "Recreate a new adjoint for previous update": a Func that calls the
\* accumulator of (func, k)
RecreatePrevious(afs, func, k) ==
    LET prev == FuncKey(func.name, k - 1)
    IN  MapPut(afs, prev,
               AdjointFunc(FuncId("recreate", prev), "alias",
                           afs[FuncKey(func.name, k)].id, <<>>))

\* the phase filter of visit(const Call *): only self references in the
\* first phase, only the others in the second
PassesPhaseFilter(n, func, phase1) ==
    LET same == n.ct = "halide" /\ n.fn = func.name
    IN  IF phase1 THEN same ELSE ~same

\* a self reference that always goes to the accumulator of the previous
\* update, also in the first phase of a scan
TargetKeyIgnoringScan(n, func, k, scan, phase1) ==
    IF n.ct = "halide"
    THEN IF n.fn # func.name
         THEN FuncKey(n.fn, Len(FuncOf(n.fn).updates) - 1)
         ELSE FuncKey(n.fn, k - 1)
    ELSE FuncKey(n.fn, -1)

\* the key of func_to_update
TargetKey(n, func, k, scan, phase1) ==
    IF n.ct = "halide"
    THEN IF scan /\ phase1 THEN FuncKey(n.fn, k)
         ELSE IF n.fn # func.name
              THEN FuncKey(n.fn, Len(FuncOf(n.fn).updates) - 1)
              ELSE FuncKey(n.fn, k - 1)
    ELSE FuncKey(n.fn, -1)

\* visit(const Call *) of a Func or buffer in the reverse pass: the update
\* func_to_update(lhs) += adjoint is added to the accumulator of the key
VisitCallReverse(st, n, p, func, k, scan, phase1) ==
    IF ~PassesPhaseFilter(n, func, phase1) THEN st
    ELSE LET key == TargetKey(n, func, k, scan, phase1)
             def == [kind |-> "scatter", args |-> n.args, adjoint |-> st.adj[p]]
             target == st.afs[key]
         IN  [st EXCEPT
                 !.afs = MapPut(st.afs, key,
                                AdjointFunc(target.id, target.init, target.of,
                                            Append(target.updates, def))),
                 !.log = Append(st.log,
                                Event("scatter", FuncKey(func.name, k), key,
                                      IF phase1 THEN 1 ELSE 2, p))]

\* for (it = expr_list.rbegin(); it != expr_list.rend(); it++) it->accept(this)
RECURSIVE TraverseReverse(_, _, _, _, _, _, _, _)
TraverseReverse(st, root, list, i, func, k, scan, phase1) ==
    IF i = 0 THEN st
    ELSE LET n == NodeAt(root, list[i])
             next == IF n.op = "call"
                     THEN VisitCallReverse(st, n, list[i], func, k, scan, phase1)
                     ELSE VisitDetect(st, root, list[i], func.name)
         IN  TraverseReverse(next, root, list, i - 1, func, k, scan, phase1)

\* (adjoint_funcs[func_key])(update_args)
AdjointCall(afs, key, args) ==
    [op |-> "call", fn |-> "adjoint", ct |-> "halide", args |-> args, of |-> afs[key].id]

\* one phase of an update step: the adjoint map is cleared, the output
\* expression gets the accumulator's value, the list is traversed in reverse
Phase(afs, lg, func, k, scan, phase1) ==
    LET key == FuncKey(func.name, k)
        value == IF k < 0 THEN func.pure ELSE func.updates[k + 1].value
        update_args == IF k >= 0 THEN func.updates[k + 1].args
                       ELSE [i \in 1 .. Len(func.args) |-> Idx(func.args[i], 0)]
        list == SortExpressions(value, <<>>)
        st0 == [adj |-> (<<>> :> AdjointCall(afs, key, update_args)),
                afs |-> afs, log |-> lg]
    IN  TraverseReverse(st0, value, list, Len(list), func, k, scan, phase1)

\* a scan whose boundary condition is never set up
IsDelayedNever(func, k, scan) == FALSE

\* the delayed boundary condition is due: the step is a scan and
\* update_id == func.num_update_definitions() - 1
IsDelayed(func, k, scan) == scan /\ k = Len(func.updates) - 1

\* the update loop starting below the last update
FirstUpdateIdPureOnly(func) == -1

\* for (update_id = func.num_update_definitions() - 1; ...)
FirstUpdateId(func) == Len(func.updates) - 1

\* the body of the loop over the updates, for update k of func
ReverseStep(afs, lg, func, k, scans) ==
    LET key == FuncKey(func.name, k)
        scan == k >= 0 /\ key \in scans
        prev == FuncKey(func.name, k - 1)
        lg0 == Append(lg, Event("step", key, key, 0, <<>>))
        masked == k >= 0 /\ ~scan
        afs1 == IF masked THEN MaskPreviousUpdate(afs, func, k) ELSE afs
        lg1 == IF masked THEN Append(lg0, Event("mask", key, prev, 0, <<>>)) ELSE lg0
        ph1 == Phase(afs1, lg1, func, k, scan, TRUE)
        delayed == IsDelayed(func, k, scan)
        afs2 == IF delayed THEN AddBoundaryCondition(ph1.afs, key) ELSE ph1.afs
        lg2 == IF delayed THEN Append(ph1.log, Event("boundary", key, key, 0, <<>>))
               ELSE ph1.log
        afs3 == IF scan
                THEN MaskPreviousUpdate(RecreatePrevious(afs2, func, k), func, k)
                ELSE afs2
        lg3 == IF scan
               THEN lg2 \o <<Event("recreate", key, prev, 0, <<>>),
                             Event("mask", key, prev, 0, <<>>)>>
               ELSE lg2
        ph2 == Phase(afs3, lg3, func, k, scan, FALSE)
    IN  [afs |-> ph2.afs, log |-> ph2.log, scan |-> scan]

\* the head of the loop over the Funcs, from the output to the producers:
\* the boundary condition of the last accumulator, unless it is a scan
ReverseFunc ==
    /\ pc = "reverse"
    /\ LET func == Funcs[func_id + 1]
           key == FuncKey(func.name, Len(func.updates) - 1)
       IN  /\ IF key \notin non_overwriting_scans
              THEN /\ adjoint_funcs' = AddBoundaryCondition(adjoint_funcs, key)
                   /\ log' = Append(log, Event("boundary", HeadKey(func), key, 0, <<>>))
              ELSE UNCHANGED <<adjoint_funcs, log>>
           /\ update_id' = FirstUpdateId(func)
    /\ pc' = "reverse_update"
    /\ UNCHANGED <<prog, adjDims, nBounds, func_id, boxes, non_overwriting_scans,
                   is_forward_overwrite_detection_phase, err, det, output_box,
                   is_self_referencing_phase, is_current_non_overwriting_scan>>
    /\ UNCHANGED outsidePass

\* the body of the loop over the updates, from the last to the pure
\* definition: masking, first phase, the scan's re-creation, second phase
ReverseUpdate ==
    /\ pc = "reverse_update"
    /\ update_id >= -1
    /\ LET r == ReverseStep(adjoint_funcs, log, Funcs[func_id + 1], update_id,
                            non_overwriting_scans)
       IN  /\ adjoint_funcs' = r.afs
           /\ log' = r.log
           /\ is_current_non_overwriting_scan' = r.scan
    /\ is_self_referencing_phase' = FALSE
    /\ update_id' = update_id - 1
    /\ UNCHANGED <<prog, adjDims, nBounds, pc, func_id, boxes, non_overwriting_scans,
                   is_forward_overwrite_detection_phase, err, det, output_box>>
    /\ UNCHANGED outsidePass

\* the updates of the current Func are done: on to its producers, or out of
\* the pass
ReverseNextFunc ==
    /\ pc = "reverse_update"
    /\ update_id < -1
    /\ func_id' = func_id - 1
    /\ pc' = IF func_id > 0 THEN "reverse" ELSE "done"
    /\ UNCHANGED <<prog, adjDims, nBounds, update_id, boxes, non_overwriting_scans,
                   is_forward_overwrite_detection_phase, err, det, output_box,
                   adjoint_funcs>>
    /\ UNCHANGED revVars
    /\ UNCHANGED outsidePass

PassNext ==
    \/ Entry
    \/ BeginDetection
    \/ DetectFunc
    \/ DetectUpdate
    \/ DetectNextFunc
    \/ BoundsInference
    \/ AllocateStubs
    \/ ReverseFunc
    \/ ReverseUpdate
    \/ ReverseNextFunc

(***************************************************************************)
(* Derivative.cpp : one update step of the reverse pass at the level of    *)
(* the expression nodes.                                                   *)
(*                                                                         *)
(* Nodes are identity-addressed: dag maps a node id to its node, and an  *)
(* operand is a node id, so a node can be shared by several users and by   *)
(* several tuple components.  Nodes 1 and 2 are the calls f(x, y) (a self  *)
(* reference of the Func f being differentiated) and g(x); nodes 3 and 4   *)
(* are binary operations over earlier nodes.                               *)
(***************************************************************************)
\* the values of the calls at the sample point are 0 .. MaxLeafValue
MaxLeafValue == 1

BinaryOps == {"add", "sub", "mul", "min", "max"}

\* the operations tried for the node that uses another operation
OuterOps == {"add", "mul", "min"}

Node(op, a, b) == [op |-> op, a |-> a, b |-> b]

IsOperation(n) == n.op \in BinaryOps

\* select(c, t, f)
Select(c, t, f) == [op |-> "select", c |-> c, t |-> t, f |-> f]

\* (adjoint_funcs[func_key])(update_args)[i], the adjoint of component i
SeedAdjoint(i) == [op |-> "seed", i |-> i]

\* the Expr a node id stands for
RECURSIVE ExprOf(_, _)
ExprOf(nodes, id) ==
    IF IsOperation(nodes[id])
    THEN Bin(nodes[id].op, ExprOf(nodes, nodes[id].a), ExprOf(nodes, nodes[id].b))
    ELSE nodes[id]

InList(list, id) == \E j \in 1 .. Len(list) : list[j] = id

\* sort_expressions(expr): the nodes reachable from id, each once, operands
\* before the node that uses them, appended to list
RECURSIVE SortFrom(_, _, _)
SortFrom(nodes, id, list) ==
    IF InList(list, id) THEN list
    ELSE IF IsOperation(nodes[id])
    THEN Append(SortFrom(nodes, nodes[id].b, SortFrom(nodes, nodes[id].a, list)), id)
    ELSE Append(list, id)

\* expr_list: the sorted list of every tuple component, one after the other
RECURSIVE ExprList(_, _, _)
ExprList(nodes, outs, i) ==
    IF i = 0 THEN <<>>
    ELSE ExprList(nodes, outs, i - 1) \o SortFrom(nodes, outs[i], <<>>)

\* expr_adjoints.clear(); expr_adjoints[output_exprs[i]] = ...[i] for every i
RECURSIVE SeedAdjoints(_, _)
SeedAdjoints(outs, i) ==
    IF i = 0 THEN EmptyMap
    ELSE MapPut(SeedAdjoints(outs, i - 1), outs[i], SeedAdjoint(i))

\* what visit(const Add/Sub/Mul/Min/Max *) hands to accumulate for the two
\* operands
Contributions(nodes, n, adjoint) ==
    LET a == ExprOf(nodes, n.a)
        b == ExprOf(nodes, n.b)
    IN  CASE n.op = "add" -> <<adjoint, adjoint>>
          [] n.op = "sub" -> <<adjoint, Neg(adjoint)>>
          [] n.op = "mul" -> <<Bin("mul", adjoint, b), Bin("mul", adjoint, a)>>
          [] n.op = "min" -> <<Select(Bin("le", a, b), adjoint, Const(0)),
                               Select(Bin("le", b, a), adjoint, Const(0))>>
          [] n.op = "max" -> <<Select(Bin("ge", a, b), adjoint, Const(0)),
                               Select(Bin("ge", b, a), adjoint, Const(0))>>

\* the Func whose update is differentiated in the step
StepFunc == [name |-> "f", args |-> <<"x", "y">>]

ExprInit ==
    /\ \E op3 \in BinaryOps, a3 \in 1 .. 2, b3 \in 1 .. 2,
          op4 \in OuterOps, a4 \in 1 .. 3, b4 \in 1 .. 3 :
          dag = <<SelfCall(Y), GCall(X), Node(op3, a3, b3), Node(op4, a4, b4)>>
    /\ output_exprs \in {<<3>>, <<4>>, <<3, 4>>, <<2, 3>>}
    /\ leaf_values \in [{"f", "g"} -> 0 .. MaxLeafValue]
    /\ step \in [k : {1}, scan : BOOLEAN, phase1 : {FALSE}]
    /\ expr_list = <<>>
    /\ it = 0
    /\ expr_adjoints = EmptyMap
    /\ epc = "sort"
    /\ visits = <<>>
    /\ scatters = <<>>

ExprIdle ==
    /\ dag = <<>>
    /\ output_exprs = <<>>
    /\ leaf_values = [n \in {"f", "g"} |-> 0]
    /\ step = [k |-> -1, scan |-> FALSE, phase1 |-> FALSE]
    /\ expr_list = <<>>
    /\ it = 0
    /\ expr_adjoints = EmptyMap
    /\ epc = "idle"
    /\ visits = <<>>
    /\ scatters = <<>>

\* the expressions of the tuple are sorted and the first phase is set up
FirstPhase ==
    /\ epc = "sort"
    /\ expr_list' = ExprList(dag, output_exprs, Len(output_exprs))
    /\ step' = [step EXCEPT !.phase1 = TRUE]
    /\ expr_adjoints' = SeedAdjoints(output_exprs, Len(output_exprs))
    /\ it' = Len(expr_list')
    /\ epc' = "traverse"
    /\ UNCHANGED <<dag, output_exprs, leaf_values, visits, scatters>>
    /\ UNCHANGED outsideExpr

\* it->accept(this) for the node under the reverse iterator
Accept ==
    /\ epc = "traverse"
    /\ it > 0
    /\ LET id == expr_list[it]
           n == dag[id]
           had == id \in DOMAIN expr_adjoints
           adjoint == IF had THEN expr_adjoints[id] ELSE Const(0)
           pushed == IF IsOperation(n) THEN Contributions(dag, n, adjoint) ELSE <<>>
           scatter == n.op = "call" /\ PassesPhaseFilter(n, StepFunc, step.phase1)
       IN  /\ expr_adjoints' =
                 IF IsOperation(n)
                 THEN Accumulate(Accumulate(expr_adjoints, n.a, pushed[1]), n.b, pushed[2])
                 ELSE expr_adjoints
           /\ visits' = Append(visits, [node |-> id, phase1 |-> step.phase1, had |-> had,
                                        adjoint |-> adjoint, pushed |-> pushed])
           /\ scatters' =
                 IF scatter
                 THEN Append(scatters,
                             [node |-> id, phase1 |-> step.phase1, adjoint |-> adjoint,
                              key |-> TargetKey(n, StepFunc, step.k, step.scan, step.phase1)])
                 ELSE scatters
    /\ it' = it - 1
    /\ UNCHANGED <<dag, output_exprs, leaf_values, step, expr_list, epc>>
    /\ UNCHANGED outsideExpr

\* the first traversal is over: the adjoints are cleared and set up again for
\* the second phase
SecondPhase ==
    /\ epc = "traverse"
    /\ it = 0
    /\ step.phase1
    /\ step' = [step EXCEPT !.phase1 = FALSE]
    /\ expr_adjoints' = SeedAdjoints(output_exprs, Len(output_exprs))
    /\ it' = Len(expr_list)
    /\ UNCHANGED <<dag, output_exprs, leaf_values, expr_list, epc, visits, scatters>>
    /\ UNCHANGED outsideExpr

\* the second traversal is over
EndStep ==
    /\ epc = "traverse"
    /\ it = 0
    /\ ~step.phase1
    /\ epc' = "done"
    /\ UNCHANGED <<dag, output_exprs, leaf_values, step, expr_list, it,
                   expr_adjoints, visits, scatters>>
    /\ UNCHANGED outsideExpr

ExprNext ==
    \/ FirstPhase
    \/ Accept
    \/ SecondPhase
    \/ EndStep

(***************************************************************************)
(* Derivative.cpp : the visit of a Call of a Func or buffer in the reverse  *)
(* pass: the canonicalization of the update                                *)
(*     func_to_update(op->args) += adjoint                                 *)
(*                                                                         *)
(* Here an index is an expression tree.  A variable is the node            *)
(* [op |-> "var", name |-> <<kind, i, j>>]: <<"n", 0, 0>> is the pure      *)
(* variable n, <<"u", i, 0>> the substitution variable u<i>_, and          *)
(* <<"r", d, j>> the variable of index j of the ReductionDomain rdoms[d].  *)
(***************************************************************************)
\* most ReductionDomain addresses
MaxAddr == 4
\* largest upper bound of an inferred interval
MaxBound == 2
\* largest shift of an index
MaxShift == 1
\* largest downsampling factor
MaxScale == 4

VarNode(name) == [op |-> "var", name |-> name]

\* Var("u" + std::to_string(arg_id) + "_"), arg_id from 0
NewArg(arg_id) == VarNode(<<"u", arg_id, 0>>)

\* RVar(domain, index), index from 0
RVarNode(d, j) == VarNode(<<"r", d, j>>)

IsRVar(e) == e.op = "var" /\ e.name[1] = "r"

\* the ReductionVariable {var, min, extent} of a variable with a domain
ReductionVariableOf(doms, name) == doms[name[2]].vars[name[3] + 1]

\* substitute(name, replacement, expr)
RECURSIVE Substitute(_, _, _)
Substitute(name, by, e) ==
    IF e.op = "var" THEN (IF e.name = name THEN by ELSE e)
    ELSE IF e.op = "call"
    THEN [e EXCEPT !.args = [i \in DOMAIN e.args |-> Substitute(name, by, e.args[i])]]
    ELSE IF IsBin(e) THEN Bin(e.op, Substitute(name, by, e.a), Substitute(name, by, e.b))
    ELSE e

\* substitute(find, replacement, expr): every subtree equal to find
RECURSIVE SubstituteExpr(_, _, _)
SubstituteExpr(find, by, e) ==
    IF e = find THEN by
    ELSE IF e.op = "call"
    THEN [e EXCEPT !.args = [i \in DOMAIN e.args |-> SubstituteExpr(find, by, e.args[i])]]
    ELSE IF IsBin(e) THEN Bin(e.op, SubstituteExpr(find, by, e.a), SubstituteExpr(find, by, e.b))
    ELSE e

SubstituteAll(name, by, exprs) == [i \in DOMAIN exprs |-> Substitute(name, by, exprs[i])]

\* the names of the variables of e
RECURSIVE VariablesOf(_)
VariablesOf(e) ==
    IF e.op = "var" THEN {e.name}
    ELSE IF e.op = "call" THEN UNION {VariablesOf(e.args[i]) : i \in DOMAIN e.args}
    ELSE IF IsBin(e) THEN VariablesOf(e.a) \cup VariablesOf(e.b)
    ELSE {}

\* gather_variables(expr, filter)
GatherVariables(e, filter) == VariablesOf(e) \cap filter

\* expr_uses_var(expr, name)
ExprUsesVar(e, name) == name \in VariablesOf(e)

\* gather_rvariables(expr): the names of the variables that have a domain
GatherRVariables(e) == {name \in VariablesOf(e) : name[1] = "r"}

\* solve_inverse(new_var == expr, new_var, var): var as an expression of
\* new_var, for the expressions var, var + c, c + var and var - c
SolveInverse(new_var, e, var) ==
    IF e = VarNode(var) THEN [solved |-> TRUE, rhs |-> new_var]
    ELSE IF e.op = "add" /\ e.a = VarNode(var) /\ e.b.op = "const"
    THEN [solved |-> TRUE, rhs |-> Simplify(Bin("sub", new_var, e.b))]
    ELSE IF e.op = "add" /\ e.b = VarNode(var) /\ e.a.op = "const"
    THEN [solved |-> TRUE, rhs |-> Simplify(Bin("sub", new_var, e.a))]
    ELSE IF e.op = "sub" /\ e.a = VarNode(var) /\ e.b.op = "const"
    THEN [solved |-> TRUE, rhs |-> Simplify(Bin("add", new_var, e.b))]
    ELSE [solved |-> FALSE, rhs |-> new_var]

\* RDom(bounds): a new ReductionDomain at the address addr; the variable of
\* index j has the min and the extent of the j-th pair
NewRDom(doms, bounds, addr) ==
    Append(doms, [vars |-> bounds, pred |-> Const(1), addr |-> addr])

\* the addresses no live ReductionDomain has
FreeAddrs(doms) == (1 .. MaxAddr) \ {doms[d].addr : d \in DOMAIN doms}

\* { current_bounds[arg_id].min, current_bounds[arg_id].max - current_bounds[arg_id].min + 1 }
BoundPair(interval) ==
    [min |-> interval.min,
     extent |-> Bin("add", Bin("sub", interval.max, interval.min), Const(1))]

(***************************************************************************)
(* The steps of the canonicalization.  c is the record of the locals lhs,  *)
(* adjoint, canonicalized, canonicalized_vars, lhs_substitute_map,         *)
(* var_names, merged_bounds, merged_r and rdom_predicate; st is the call   *)
(* visited; doms are the ReductionDomains.                                 *)
(***************************************************************************)
\* vars_to_strings(current_args)
CurrentArgs(st) == {st.cur_args[a] : a \in DOMAIN st.cur_args}

\* the inversion loop that leaves the solved variable in the adjoint
InvertArgKeepsAdjoint(c, st, arg_id) ==
    LET variables == GatherVariables(c.lhs[arg_id + 1], CurrentArgs(st))
    IN  IF Cardinality(variables) # 1 THEN c
        ELSE LET v == CHOOSE w \in variables : TRUE
                 r == SolveInverse(NewArg(arg_id), c.lhs[arg_id + 1], v)
             IN  IF ~r.solved THEN c
                 ELSE [c EXCEPT !.lhs[arg_id + 1] = NewArg(arg_id),
                                !.canonicalized[arg_id + 1] = TRUE,
                                !.canonicalized_vars = @ \cup {v},
                                !.lhs_substitute_map = MapPut(@, v, NewArg(arg_id))]

\* the body of the loop that constructs the equations and inverts them, for
\* the coordinate arg_id (from 0)
InvertArg(c, st, arg_id) ==
    LET variables == GatherVariables(c.lhs[arg_id + 1], CurrentArgs(st))
    IN  IF Cardinality(variables) # 1 THEN c
        ELSE LET v == CHOOSE w \in variables : TRUE
                 r == SolveInverse(NewArg(arg_id), c.lhs[arg_id + 1], v)
             IN  IF ~r.solved THEN c
                 ELSE [c EXCEPT !.adjoint = Substitute(v, r.rhs, @),
                                !.lhs[arg_id + 1] = NewArg(arg_id),
                                !.canonicalized[arg_id + 1] = TRUE,
                                !.canonicalized_vars = @ \cup {v},
                                !.lhs_substitute_map = MapPut(@, v, NewArg(arg_id))]

RECURSIVE InvertLoop(_, _, _)
InvertLoop(c, st, arg_id) ==
    IF arg_id = Len(c.lhs) THEN c
    ELSE InvertLoop(InvertArg(c, st, arg_id), st, arg_id + 1)

\* the loop over lhs_substitute_map left out
SubstituteLhsMapSkipped(lhs, map) == lhs

\* for every lhs[i], for every entry of lhs_substitute_map:
\* lhs[i] = substitute(it.first, it.second, lhs[i])
RECURSIVE SubstituteLhsMap(_, _)
SubstituteLhsMap(lhs, map) ==
    IF DOMAIN map = {} THEN lhs
    ELSE LET k == CHOOSE w \in DOMAIN map : TRUE
         IN  SubstituteLhsMap(SubstituteAll(k, map[k], lhs), MapErase(map, k))

\* new_args, the inversion loop and the substitution of the solved variables
\* into every coordinate
Invert(c, st) ==
    LET c1 == InvertLoop(c, st, 0)
    IN  [c1 EXCEPT !.lhs = SubstituteLhsMap(@, c1.lhs_substitute_map)]

\* bounds: the pair (min, extent) of every current argument
CurrentBoundPairs(st) == [a \in DOMAIN st.cur_args |-> BoundPair(st.cur_bounds[a])]

\* general scattering of the coordinate lhs_id (from 1): every variable of it
\* that is a current argument and was not canonicalized becomes the variable
\* of r_bounds for that argument, in the coordinate and in the adjoint
RECURSIVE ScatterCoordinate(_, _, _, _, _, _)
ScatterCoordinate(c, st, lhs_id, variables, r_bounds, arg_id) ==
    IF arg_id = Len(st.cur_args) THEN c
    ELSE LET name == st.cur_args[arg_id + 1]
             next == IF name \in variables /\ name \notin c.canonicalized_vars
                     THEN [c EXCEPT !.lhs[lhs_id] = Substitute(name, RVarNode(r_bounds, arg_id), @),
                                    !.adjoint = Substitute(name, RVarNode(r_bounds, arg_id), @)]
                     ELSE c
         IN  ScatterCoordinate(next, st, lhs_id, variables, r_bounds, arg_id + 1)

RECURSIVE GeneralScatterLoop(_, _, _, _)
GeneralScatterLoop(c, st, r_bounds, lhs_id) ==
    IF lhs_id > Len(c.lhs) THEN c
    ELSE GeneralScatterLoop(
             IF c.canonicalized[lhs_id] THEN c
             ELSE ScatterCoordinate(c, st, lhs_id,
                      GatherVariables(c.lhs[lhs_id], CurrentArgs(st)), r_bounds, 0),
             st, r_bounds, lhs_id + 1)

\* the current arguments the adjoint still uses, in the order of the arguments
RECURSIVE ArgIdToSubstitute(_, _, _)
ArgIdToSubstitute(c, st, arg_id) ==
    IF arg_id = Len(st.cur_args) THEN <<>>
    ELSE (IF ExprUsesVar(c.adjoint, st.cur_args[arg_id + 1]) THEN <<arg_id>> ELSE <<>>)
         \o ArgIdToSubstitute(c, st, arg_id + 1)

\* adjoint = substitute(current_args[arg_id].name(), r[i], adjoint) for every
\* free variable
RECURSIVE SubstituteFree(_, _, _, _, _)
SubstituteFree(adjoint, st, ids, r, i) ==
    IF i = Len(ids) THEN adjoint
    ELSE SubstituteFree(Substitute(st.cur_args[ids[i + 1] + 1], RVarNode(r, i), adjoint),
                        st, ids, r, i + 1)

\* can_prove(r_interval.min <= t_interval.min && r_interval.max >= t_interval.max) && false
CollapseProved(r_interval, t_interval) ==
    /\ r_interval.min.op = "const" /\ t_interval.min.op = "const"
    /\ r_interval.max.op = "const" /\ t_interval.max.op = "const"
    /\ r_interval.min.c <= t_interval.min.c
    /\ r_interval.max.c >= t_interval.max.c
    /\ FALSE

\* f(r.x) = g(r.x)  =>  f(x) = g(x), for the coordinate i (from 1) that is a
\* variable with a domain
CollapseRVar(c, st, doms, i) ==
    LET var == c.lhs[i]
        rvar == ReductionVariableOf(doms, var.name)
        x == VarNode(st.target_args[i])
        t_interval == Interval(Simplify(st.target_bounds[i].min),
                               Simplify(st.target_bounds[i].max))
        r_interval == Interval(Simplify(rvar.min),
                               Simplify(Bin("sub", Bin("add", rvar.min, rvar.extent), Const(1))))
    IN  IF CollapseProved(r_interval, t_interval)
        THEN [c EXCEPT !.lhs = [j \in DOMAIN c.lhs |->
                                   IF j = i THEN x
                                   ELSE Simplify(Substitute(var.name, x, c.lhs[j]))],
                       !.adjoint = Simplify(Substitute(var.name, x, @))]
        ELSE c

\* the coordinate is an Add of a Mul and a Variable, in either order
IsMulPlusVar(e) ==
    /\ e.op = "add"
    /\ \/ e.a.op = "mul" /\ e.b.op = "var"
       \/ e.a.op = "var" /\ e.b.op = "mul"

\* s * r.x + r.y with r.y.min == 0 and r.y.extent == s  =>  x, and r.x => x / s
\* in the adjoint, for the coordinate i (from 1)
Downsample(c, st, doms, i) ==
    LET lhs_arg == c.lhs[i]
        mul == IF lhs_arg.b.op = "mul" THEN lhs_arg.b ELSE lhs_arg.a
        b_var == IF lhs_arg.b.op = "mul" THEN lhs_arg.a ELSE lhs_arg.b
        swap == IsRVar(mul.a)
        mul_a == IF swap THEN mul.b ELSE mul.a
        mul_b == IF swap THEN mul.a ELSE mul.b
        x == VarNode(st.target_args[i])
    IN  IF ~IsRVar(mul_b) \/ ~IsRVar(b_var) THEN c
        ELSE LET rvar == ReductionVariableOf(doms, b_var.name)
             IN  IF rvar.min # Const(0) \/ rvar.extent # mul_a THEN c
                 ELSE [c EXCEPT
                         !.lhs[i] = x,
                         !.adjoint = Simplify(SubstituteExpr(mul_b, Bin("div", x, mul_a),
                                                  SubstituteExpr(lhs_arg, x, @)))]

\* "General scattering simplification rules": the loop over the coordinates
RECURSIVE SimplificationRules(_, _, _, _)
SimplificationRules(c, st, doms, i) ==
    IF i > Len(c.lhs) THEN c
    ELSE SimplificationRules(
             IF IsRVar(c.lhs[i]) /\ doms[c.lhs[i].name[2]].pred = Const(1)
             THEN CollapseRVar(c, st, doms, i)
             ELSE IF IsMulPlusVar(c.lhs[i]) THEN Downsample(c, st, doms, i)
             ELSE c,
             st, doms, i + 1)

\* the variables with a domain of the adjoint and of every coordinate
RVarMaps(lhs, adjoint) ==
    GatherRVariables(adjoint) \cup UNION {GatherRVariables(lhs[i]) : i \in DOMAIN lhs}

\* ReductionDomain::Compare: the order of the addresses of the contents
Compare(doms, d0, d1) == doms[d0].addr < doms[d1].addr

\* cmp_rv(rv0, rv1)
CmpRv(doms, rv0, rv1) ==
    IF Compare(doms, rv0[2], rv1[2]) THEN TRUE ELSE rv0[3] < rv1[3]

\* cmp_rv meets the requirement of std::sort on the elements of S: it is a
\* strict weak ordering
StrictWeakOrder(doms, S) ==
    LET lt(a, b) == CmpRv(doms, a, b)
        eq(a, b) == ~lt(a, b) /\ ~lt(b, a)
    IN  /\ \A a \in S : ~lt(a, a)
        /\ \A a, b \in S : lt(a, b) => ~lt(b, a)
        /\ \A a, b, k \in S : (lt(a, b) /\ lt(b, k)) => lt(a, k)
        /\ \A a, b, k \in S : (eq(a, b) /\ eq(b, k)) => eq(a, k)

\* the orders of the elements of S
OrdersOf(S) ==
    {q \in [1 .. Cardinality(S) -> S] : \A a \in S : \E i \in DOMAIN q : q[i] = a}

\* std::sort(vec.begin(), vec.end(), cmp_rv): a sorted order when cmp_rv is a
\* strict weak ordering of the elements; otherwise the behaviour is
\* undefined, and every order may come out
SortOutcomes(doms, S) ==
    IF StrictWeakOrder(doms, S)
    THEN {q \in OrdersOf(S) :
             \A i, j \in DOMAIN q : i < j => ~CmpRv(doms, q[j], q[i])}
    ELSE OrdersOf(S)

\* the flip of the original reduction variables of a non overwriting scan:
\* substitute(it.first, max - r, e) for every rvar of S
RECURSIVE Flip(_, _, _)
Flip(e, doms, S) ==
    IF S = {} THEN e
    ELSE LET name == CHOOSE w \in S : TRUE
             rv == ReductionVariableOf(doms, name)
             max == Simplify(Bin("sub", Bin("add", rv.min, rv.extent), Const(1)))
         IN  Flip(Substitute(name, Bin("sub", max, VarNode(name)), e), doms, S \ {name})

\* substitute(var_names[rid], merged_r[rid], e) for every rid
RECURSIVE ReferenceMerged(_, _, _, _)
ReferenceMerged(e, var_names, merged_r, rid) ==
    IF rid = Len(var_names) THEN e
    ELSE ReferenceMerged(Substitute(var_names[rid + 1], RVarNode(merged_r, rid), e),
                         var_names, merged_r, rid + 1)

\* a merge that leaves the predicates of the source domains out
PredicateOfNone(doms, S) == {}

\* the conjunction of the predicates of the domains of the rvars of S, as the
\* set of its conjuncts
PredicateOf(doms, S) ==
    {doms[name[2]].pred : name \in S} \ {Const(1)}

\* from the gathering of the reduction variables to the merged RDom: the
\* flip, the split into new and original rvars, and the merged domain with
\* the rvars in the orders new_order and old_order the two sorts left
MergeRDoms(c, st, doms, new_order, old_order) ==
    LET org_rvar_maps == RVarMaps(st.lhs, st.adjoint)
        rvar_maps == RVarMaps(c.lhs, c.adjoint)
        lhs1 == IF st.scan THEN [i \in DOMAIN c.lhs |-> Flip(c.lhs[i], doms, org_rvar_maps)]
                ELSE c.lhs
        adjoint1 == IF st.scan THEN Flip(c.adjoint, doms, org_rvar_maps) ELSE c.adjoint
        var_names == new_order \o old_order
        merged_bounds == [k \in DOMAIN var_names |->
                             [min |-> ReductionVariableOf(doms, var_names[k]).min,
                              extent |-> ReductionVariableOf(doms, var_names[k]).extent]]
        merged_r == Len(doms) + 1
        predicate == PredicateOf(doms, rvar_maps)
    IN  IF var_names = <<>>
        THEN [c EXCEPT !.lhs = lhs1, !.adjoint = adjoint1]
        ELSE [c EXCEPT
                !.lhs = [i \in DOMAIN lhs1 |-> ReferenceMerged(lhs1[i], var_names, merged_r, 0)],
                !.adjoint = ReferenceMerged(adjoint1, var_names, merged_r, 0),
                !.var_names = var_names,
                !.merged_bounds = merged_bounds,
                !.merged_r = merged_r,
                !.rdom_predicate = {ReferenceMerged(q, var_names, merged_r, 0) : q \in predicate}]

\* "Substitute new_args back to original variables", and the last simplify
RECURSIVE SubstituteBack(_, _, _)
SubstituteBack(c, st, arg_id) ==
    IF arg_id = Len(st.target_args)
    THEN [c EXCEPT !.adjoint = Simplify(@)]
    ELSE SubstituteBack(
             [c EXCEPT !.lhs = SubstituteAll(NewArg(arg_id).name,
                                             VarNode(st.target_args[arg_id + 1]), @),
                       !.adjoint = Substitute(NewArg(arg_id).name,
                                              VarNode(st.target_args[arg_id + 1]), @),
                       !.rdom_predicate = {Substitute(NewArg(arg_id).name,
                                                      VarNode(st.target_args[arg_id + 1]), q)
                                           : q \in @}],
             st, arg_id + 1)

(***************************************************************************)
(* The calls visited.  k is the current Func, with the pure arguments      *)
(* (n) or (n, m); f is the Func called, with the arguments (x) or (x, y);  *)
(* d_k is the adjoint of k.  A call inside an update with a user's RDom    *)
(* uses its variables r.x = RVarNode(1, 0) and r.y = RVarNode(1, 1).       *)
(***************************************************************************)
N == <<"n", 0, 0>>

M == <<"m", 0, 0>>

XName == <<"x", 0, 0>>

YName == <<"y", 0, 0>>

LName == <<"l", 0, 0>>

ZName == <<"z", 0, 0>>

Rx == RVarNode(1, 0)

Ry == RVarNode(1, 1)

\* the inferred bounds of the arguments: [0, b], [0, b + 1], ...
BoundsFor(args, b) == [a \in DOMAIN args |-> Interval(Const(0), Const(b + a - 1))]

Site(cur_args, target_args, lhs, adjoint, scan, user_doms, b) ==
    [cur_args |-> cur_args, cur_bounds |-> BoundsFor(cur_args, b),
     target_args |-> target_args, target_bounds |-> BoundsFor(target_args, b),
     lhs |-> lhs, adjoint |-> adjoint, scan |-> scan, user_doms |-> user_doms]

DK(args) == CallTo("d_k", "halide", args)

GOf(e) == CallTo("g", "halide", <<e>>)

HOf(e) == CallTo("h", "halide", <<e>>)

\* the RDom of the user: r.x over [0, b], r.y over [min_y, min_y + extent_y)
UserRDom(b, min_y, extent_y) ==
    [vars |-> <<[min |-> Const(0), extent |-> Const(b + 1)],
                [min |-> Const(min_y), extent |-> Const(extent_y)]>>,
     pred |-> Const(1)]

\* the RDom of the user with r.where(pred)
UserRDomWhere(b, pred) == [UserRDom(b, 0, 2) EXCEPT !.pred = pred]

\* the predicate r.x < 1
RxBelowOne == Bin("lt", Rx, Const(1))

\* s * r.x + r.y in the forms the front end can hand over
ScaledForms(scale) ==
    {Bin("add", Bin("mul", Const(scale), Rx), Ry),
     Bin("add", Bin("mul", Rx, Const(scale)), Ry),
     Bin("add", Ry, Bin("mul", Const(scale), Rx))}

Scales == {2, MaxScale}

\* k(n) = f(g(n), n)
PathologicalSites ==
    {Site(<<N>>, <<XName, YName>>, <<GOf(VarNode(N)), VarNode(N)>>,
          DK(<<VarNode(N)>>), FALSE, <<>>, b) : b \in 1 .. MaxBound}

\* k(n) = f(g(n))
OpaqueSites ==
    {Site(<<N>>, <<XName>>, <<GOf(VarNode(N))>>, DK(<<VarNode(N)>>), FALSE, <<>>, b)
        : b \in 1 .. MaxBound}

\* k(n, m) = f(n + c, m - c)
ShiftSites ==
    {Site(<<N, M>>, <<XName, YName>>,
          <<Bin("add", VarNode(N), Const(c)), Bin("sub", VarNode(M), Const(c))>>,
          DK(<<VarNode(N), VarNode(M)>>), FALSE, <<>>, b)
        : c \in 0 .. MaxShift, b \in 1 .. MaxBound}

\* k(n, m, l) = f(n, m - c, l + c)
ShiftSites3 ==
    {Site(<<N, M, LName>>, <<XName, YName, ZName>>,
          <<VarNode(N), Bin("sub", VarNode(M), Const(c)), Bin("add", VarNode(LName), Const(c))>>,
          DK(<<VarNode(N), VarNode(M), VarNode(LName)>>), FALSE, <<>>, b)
        : c \in 0 .. MaxShift, b \in 1 .. MaxBound}

\* k(n, m) = f(n * m, n + m), f(n), f(n * n), f(m * m)
ScatterSites ==
    {Site(<<N, M>>, target, lhs, DK(<<VarNode(N), VarNode(M)>>), FALSE, <<>>, b)
        : b \in 1 .. MaxBound,
          target \in {<<XName>>},
          lhs \in {<<VarNode(N)>>,
                   <<Bin("mul", VarNode(N), VarNode(N))>>,
                   <<Bin("mul", VarNode(M), VarNode(M))>>,
                   <<Bin("mul", VarNode(N), VarNode(M))>>}}

\* inside an update of k with the RDom r: f(s * r.x + r.y) with the adjoint
\* g(r.x) + h(s * r.x + r.y), and f(s * r.x + r.y, r.x) with the adjoint g(r.x)
DownsampleSites ==
    UNION {UNION {
        {Site(<<N>>, <<XName>>, <<form>>, Bin("add", GOf(Rx), HOf(form)), FALSE,
              <<UserRDom(b, min_y, extent_y)>>, b),
         Site(<<N>>, <<XName, YName>>, <<form, Rx>>, GOf(Rx), FALSE,
              <<UserRDom(b, min_y, extent_y)>>, b)}
        : form \in ScaledForms(scale)}
        : scale \in Scales, min_y \in 0 .. 1, extent_y \in Scales, b \in 1 .. MaxBound}

\* k(n) = f(n, n)
DiagonalSites ==
    {Site(<<N>>, <<XName, YName>>, <<VarNode(N), VarNode(N)>>, DK(<<VarNode(N)>>),
          FALSE, <<>>, b) : b \in 1 .. MaxBound}

\* inside an update of k(n) with the RDom r, with or without r.where(r.x < 1):
\* the call f(n) with the adjoint d_k(n) * g(r.x), and the call f(r.x) with
\* the adjoint d_k(n)
PredicateSites ==
    UNION {{Site(<<N>>, <<XName>>, <<VarNode(N)>>,
                 Bin("mul", DK(<<VarNode(N)>>), GOf(Rx)), FALSE,
                 <<UserRDomWhere(b, pred)>>, b),
            Site(<<N>>, <<XName>>, <<Rx>>, DK(<<VarNode(N)>>), FALSE,
                 <<UserRDomWhere(b, pred)>>, b)}
           : pred \in {Const(1), RxBelowOne}, b \in 1 .. MaxBound}

\* the self reference of the scan f(x, r.y + 1) = 2 * f(x, r.y), r.y over
\* [min_y, min_y + 2)
ShiftedScanSites ==
    {Site(<<XName, YName>>, <<XName, YName>>, <<VarNode(XName), Ry>>,
          Bin("mul", CallTo("d_f", "halide", <<VarNode(XName), Bin("add", Ry, Const(1))>>),
              Const(2)),
          TRUE, <<UserRDom(b, min_y, 2)>>, b) : min_y \in 0 .. 1, b \in 1 .. MaxBound}

\* the self reference of the scan f(x, r.x + 1) = 2 * f(x, r.x)
ScanSites ==
    {Site(<<XName, YName>>, <<XName, YName>>, <<VarNode(XName), Rx>>,
          Bin("mul", CallTo("d_f", "halide", <<VarNode(XName), Bin("add", Rx, Const(1))>>),
              Const(2)),
          TRUE, <<UserRDom(b, 0, 1)>>, b) : b \in 1 .. MaxBound}

Sites ==
    PathologicalSites \cup OpaqueSites \cup ShiftSites \cup ShiftSites3 \cup ScatterSites
        \cup DownsampleSites \cup ScanSites \cup DiagonalSites \cup ShiftedScanSites
        \cup PredicateSites

NoResult == [lhs |-> <<>>, adjoint |-> Const(0), merged_bounds |-> <<>>, rdom_predicate |-> {}]

\* the update visit(const Call *) hands to the merge with the definitions of
\* the adjoint Func
Result(c) ==
    [lhs |-> c.lhs, adjoint |-> c.adjoint, merged_bounds |-> c.merged_bounds,
     rdom_predicate |-> c.rdom_predicate]

\* the locals when the canonicalization begins
Locals(st) ==
    [lhs |-> st.lhs, adjoint |-> st.adjoint,
     canonicalized |-> [i \in DOMAIN st.lhs |-> FALSE],
     canonicalized_vars |-> {},
     lhs_substitute_map |-> EmptyMap,
     var_names |-> <<>>, merged_bounds |-> <<>>, merged_r |-> 0,
     rdom_predicate |-> {}]

\* func_to_update(lhs): the accumulator called at the write address
AccumulatorAt(lhs) == CallTo("d_f", "halide", lhs)

\* an update definition of the accumulator: its write address, its value,
\* the (min, extent) of the variables of its RDom, the conjuncts of the
\* predicate of that RDom, and the RDom
UpdateDef(lhs, value, rvars, pred, rdom) ==
    [lhs |-> lhs, value |-> value, rvars |-> rvars, pred |-> pred, rdom |-> rdom]

PureArgs(st) == [i \in DOMAIN st.target_args |-> VarNode(st.target_args[i])]

\* the domains an earlier update of the accumulator may reduce over: none,
\* the bound of a current argument, or a variable of the RDom of the user
EarlierRVars(st) ==
    {<<>>} \cup {<<BoundPair(st.cur_bounds[a])>> : a \in DOMAIN st.cur_args}
           \cup UNION {{<<st.user_doms[d].vars[j]>> : j \in DOMAIN st.user_doms[d].vars}
                        : d \in DOMAIN st.user_doms}

\* the update an earlier scatter left on the accumulator: at the pure
\* variables, over the domain rvars with the predicate pred.  Its RDom is not
\* one of rdoms: its variables are RVarNode(0, j).
EarlierUpdate(st, rvars, pred) ==
    UpdateDef(PureArgs(st),
              Bin("add", AccumulatorAt(PureArgs(st)),
                  IF rvars = <<>> THEN HOf(VarNode(st.target_args[1]))
                  ELSE HOf(RVarNode(0, 0))),
              rvars, pred, 0)

\* the update an earlier scatter left at the address (0, ...)
EarlierUpdateAtZero(st) ==
    UpdateDef([i \in DOMAIN st.target_args |-> Const(0)],
              Bin("add", AccumulatorAt([i \in DOMAIN st.target_args |-> Const(0)]),
                  Const(1)),
              <<>>, {}, 0)

\* the accumulator when the call is visited: the zero stub, with no update
\* yet or with the update of an earlier scatter
Accumulators(st) ==
    {[args |-> st.target_args, pure |-> Const(0), updates |-> ups] :
        ups \in {<<>>, <<EarlierUpdateAtZero(st)>>}
                 \cup {<<EarlierUpdate(st, rvars, {})>> : rvars \in EarlierRVars(st)}
                 \cup {<<EarlierUpdate(st, rvars, {Bin("lt", RVarNode(0, 0), Const(2))})>>
                        : rvars \in EarlierRVars(st) \ {<<>>}}}

\* can_merge that does not look at the reduction domains
CanMergeAnyRDom(ftu, c) ==
    IF ftu.updates = <<>>
    THEN /\ \A i \in DOMAIN c.lhs : c.lhs[i] = VarNode(ftu.args[i])
         /\ GatherRVariables(c.adjoint) = {}
    ELSE c.lhs = Last(ftu.updates).lhs

\* can_merge(func_to_update, lhs)
CanMerge(ftu, c) ==
    IF ftu.updates = <<>>
    THEN /\ \A i \in DOMAIN c.lhs : c.lhs[i] = VarNode(ftu.args[i])
         /\ GatherRVariables(c.adjoint) = {}
    ELSE LET prev == Last(ftu.updates)
         IN  /\ \A i \in DOMAIN prev.lhs : c.lhs[i] = prev.lhs[i]
             /\ IF c.merged_bounds = <<>> THEN prev.rvars = <<>>
                ELSE /\ Len(prev.rvars) = Len(c.merged_bounds)
                     /\ \A i \in DOMAIN prev.rvars :
                           /\ prev.rvars[i].min = c.merged_bounds[i].min
                           /\ prev.rvars[i].extent = c.merged_bounds[i].extent

\* adjoint = substitute(merged_r[i].name(), RVar(rdom, i), adjoint) for every i
RECURSIVE UseRDomOf(_, _, _, _)
UseRDomOf(e, merged_r, rdom, i) ==
    IF i = 0 THEN e
    ELSE UseRDomOf(Substitute(RVarNode(merged_r, i - 1).name, RVarNode(rdom, i - 1), e),
                   merged_r, rdom, i - 1)

\* func_to_update(lhs) += adjoint: a new update definition over merged_r
AppendUpdate(ftu, c) ==
    [ftu EXCEPT !.updates =
        Append(@, UpdateDef(c.lhs, Bin("add", AccumulatorAt(c.lhs), c.adjoint),
                            c.merged_bounds, c.rdom_predicate, c.merged_r))]

\* values[0] = simplify(values[0] + adjoint) on the pure definition or on the
\* last update, the adjoint using the reduction variables of that definition
FoldUpdate(ftu, c) ==
    IF ftu.updates = <<>>
    THEN [ftu EXCEPT !.pure = Simplify(Bin("add", @, c.adjoint))]
    ELSE LET def == Last(ftu.updates)
             adjoint == IF GatherRVariables(def.value) # {}
                        THEN UseRDomOf(c.adjoint, c.merged_r, def.rdom, Len(c.merged_bounds))
                        ELSE c.adjoint
         IN  [ftu EXCEPT !.updates[Len(ftu.updates)].value =
                             Simplify(Bin("add", @, adjoint))]

\* the RDom of the user lives at addr through both runs
UserRDoms(st, addr) ==
    [d \in DOMAIN st.user_doms |->
        [vars |-> st.user_doms[d].vars, pred |-> st.user_doms[d].pred, addr |-> addr]]

ScatterInit ==
    /\ site \in Sites
    /\ \E addr \in 1 .. MaxAddr : rdoms = UserRDoms(site, addr)
    /\ spc = "invert"
    /\ sc = Locals(site)
    /\ run = 1
    /\ first = NoResult
    /\ prev_func \in Accumulators(site)
    /\ func_to_update = prev_func

ScatterIdle ==
    /\ site = Site(<<N>>, <<XName>>, <<VarNode(N)>>, DK(<<VarNode(N)>>), FALSE, <<>>, 1)
    /\ rdoms = <<>>
    /\ spc = "idle"
    /\ sc = Locals(site)
    /\ run = 1
    /\ first = NoResult
    /\ prev_func = [args |-> site.target_args, pure |-> Const(0), updates |-> <<>>]
    /\ func_to_update = prev_func

\* new_args, the inversion of the coordinates, lhs_substitute_map
InvertStep ==
    /\ spc = "invert"
    /\ sc' = Invert(sc, site)
    /\ spc' = "general_scatter"
    /\ UNCHANGED <<site, rdoms, run, first>>
    /\ UNCHANGED updVars
    /\ UNCHANGED outsideScatter

\* RDom r_bounds(bounds) and the general scattering
GeneralScatterStep ==
    /\ spc = "general_scatter"
    /\ \E addr \in FreeAddrs(rdoms) :
          /\ rdoms' = NewRDom(rdoms, CurrentBoundPairs(site), addr)
          /\ sc' = GeneralScatterLoop(sc, site, Len(rdoms) + 1, 1)
    /\ spc' = "free_variables"
    /\ UNCHANGED <<site, run, first>>
    /\ UNCHANGED updVars
    /\ UNCHANGED outsideScatter

\* "For each free variable on the rhs, replace it with current bounds"
FreeVariablesStep ==
    /\ spc = "free_variables"
    /\ LET ids == ArgIdToSubstitute(sc, site, 0)
           bounds_subset == [i \in DOMAIN ids |-> BoundPair(site.cur_bounds[ids[i] + 1])]
       IN  IF ids = <<>>
           THEN UNCHANGED <<rdoms, sc>>
           ELSE \E addr \in FreeAddrs(rdoms) :
                   /\ rdoms' = NewRDom(rdoms, bounds_subset, addr)
                   /\ sc' = [sc EXCEPT !.adjoint =
                                SubstituteFree(@, site, ids, Len(rdoms) + 1, 0)]
    /\ spc' = "simplify"
    /\ UNCHANGED <<site, run, first>>
    /\ UNCHANGED updVars
    /\ UNCHANGED outsideScatter

\* "General scattering simplification rules"
SimplifyStep ==
    /\ spc = "simplify"
    /\ sc' = SimplificationRules(sc, site, rdoms, 1)
    /\ spc' = "merge"
    /\ UNCHANGED <<site, rdoms, run, first>>
    /\ UNCHANGED updVars
    /\ UNCHANGED outsideScatter

\* the merge of the RDoms: the two std::sort calls, and RDom(merged_bounds)
MergeStep ==
    /\ spc = "merge"
    /\ LET org_rvar_maps == RVarMaps(site.lhs, site.adjoint)
           rvar_maps == RVarMaps(sc.lhs, sc.adjoint)
       IN  \E new_order \in SortOutcomes(rdoms, rvar_maps \ org_rvar_maps),
              old_order \in SortOutcomes(rdoms, rvar_maps \cap org_rvar_maps) :
               /\ sc' = MergeRDoms(sc, site, rdoms, new_order, old_order)
               /\ IF new_order \o old_order = <<>>
                  THEN UNCHANGED rdoms
                  ELSE \E addr \in FreeAddrs(rdoms) :
                          rdoms' = NewRDom(rdoms, sc'.merged_bounds, addr)
    /\ spc' = "substitute_back"
    /\ UNCHANGED <<site, run, first>>
    /\ UNCHANGED updVars
    /\ UNCHANGED outsideScatter

\* the substitution of new_args by the arguments of func_to_update
SubstituteBackStep ==
    /\ spc = "substitute_back"
    /\ sc' = SubstituteBack(sc, site, 0)
    /\ spc' = "update"
    /\ UNCHANGED <<site, rdoms, run, first>>
    /\ UNCHANGED updVars
    /\ UNCHANGED outsideScatter

\* "Finally we update the function definitions, possibly merge with previous
\* updates"
UpdateStep ==
    /\ spc = "update"
    /\ func_to_update' = IF CanMerge(func_to_update, sc)
                         THEN FoldUpdate(func_to_update, sc)
                         ELSE AppendUpdate(func_to_update, sc)
    /\ spc' = "done"
    /\ UNCHANGED <<site, rdoms, sc, run, first, prev_func>>
    /\ UNCHANGED outsideScatter

\* the pass is run again on the same call graph: the RDom of the user is the
\* same object, every other ReductionDomain is allocated anew
SecondRun ==
    /\ spc = "done"
    /\ run = 1
    /\ first' = Result(sc)
    /\ run' = 2
    /\ rdoms' = SubSeq(rdoms, 1, Len(site.user_doms))
    /\ sc' = Locals(site)
    /\ spc' = "invert"
    /\ func_to_update' = prev_func
    /\ UNCHANGED <<site, prev_func>>
    /\ UNCHANGED outsideScatter

ScatterNext ==
    \/ InvertStep
    \/ GeneralScatterStep
    \/ FreeVariablesStep
    \/ SimplifyStep
    \/ MergeStep
    \/ SubstituteBackStep
    \/ UpdateStep
    \/ SecondRun

(***************************************************************************)
(* Claims about Scope, checked under SpecScope.                            *)
(***************************************************************************)

\* C9: get(name) returns the value of the most recent push(name, .) that has
\* not been popped (as long as replace() has not overwritten it), and right
\* after push(name, v); pop(name) the scope shows, for every name, the same
\* contains and get results as before the push.
C9_PushPopRestores ==
    /\ \A s \in ScopeIds, n \in Names :
          (live[s][n] # <<>> /\ ~Last(live[s][n]).replaced)
              => Get(s, n) = Ret(Last(live[s][n]).v)
    /\ roundTrip # NoPush => Obs(roundTrip[1]) = obsBefore

\* C9 witness: push("x", v); pop("x") was just run on the child scope while
\* an earlier binding of "x" was shadowed, and that binding is visible again.
C9_Witness ==
    /\ roundTrip = <<CHILD, "x">>
    /\ live[CHILD]["x"] # <<>>
    /\ Get(CHILD, "x") = Ret(Last(live[CHILD]["x"]).v)

\* C10: a scope with a live binding of its own for a name answers get and
\* contains from that binding; without one it gives its parent's answers, and
\* with no parent contains is false and get is a fatal error.
C10_ParentFallback ==
    \A s \in ScopeIds, n \in Names :
        IF live[s][n] # <<>>
        THEN Contains(s, n) = Ret(TRUE) /\ Get(s, n) = Ret(Last(live[s][n]).v)
        ELSE IF containing_scope[s] # NULL
             THEN /\ Contains(s, n) = Contains(containing_scope[s], n)
                  /\ Get(s, n) = Get(containing_scope[s], n)
             ELSE Contains(s, n) = Ret(FALSE) /\ Get(s, n) = FATAL

\* C10 witness: the child has a parent; "x" is bound only in the parent and
\* "y" in both, with different values.
C10_Witness ==
    /\ containing_scope[CHILD] = PARENT
    /\ live[CHILD]["x"] = <<>> /\ live[PARENT]["x"] # <<>>
    /\ live[CHILD]["y"] # <<>> /\ live[PARENT]["y"] # <<>>
    /\ Get(CHILD, "x") = Ret(Last(live[PARENT]["x"]).v)
    /\ Get(CHILD, "y") # Get(PARENT, "y")

\* C11: pop(name) on a scope that has no live binding of its own for name
\* (never pushed, fully popped, or bound only in the parent) ends in a fatal
\* error and leaves every binding of every scope as it was.
C11_PopUnboundFatal ==
    [][\A s \in ScopeIds, n \in Names :
          (live[s][n] = <<>> /\ (Pop(s, n) \/ PopFatal(s, n)))
              => /\ scopeFatal' = "pop"
                 /\ m_table' = m_table
                 /\ o_table' = o_table]_<<scopeVars, outsideScope>>

\* C11 witness: pop("x") has just failed on the child, where "x" is bound
\* only in the parent (every other name of either scope is bound, so the
\* failed pop was the child's pop of "x").
C11_Witness ==
    /\ scopeFatal = "pop"
    /\ containing_scope[CHILD] = PARENT
    /\ live[CHILD]["x"] = <<>> /\ live[PARENT]["x"] # <<>>
    /\ live[CHILD]["y"] # <<>> /\ live[PARENT]["y"] # <<>>
    /\ Contains(CHILD, "x") = Ret(TRUE)

\* C11, second case: a pop failed while no name was bound in either scope
\* (never pushed, or pushed and popped again).
C11_WitnessNothingBound ==
    /\ scopeFatal = "pop"
    /\ roundTrip = NoPush
    /\ \A s \in ScopeIds, n \in Names : live[s][n] = <<>>

\* C30: after any sequence of push, pop, replace and swap (also one that
\* ended in a fatal error) the ordered and the unordered table of every scope
\* hold the same names and, for each name, the same stack of values, no name
\* maps to an empty stack, and the stack of a name holds the values of its
\* live pushes, oldest first.
C30_TablesAgree ==
    \A s \in ScopeIds :
        /\ m_table[s] = o_table[s]
        /\ DOMAIN m_table[s] = {n \in Names : live[s][n] # <<>>}
        /\ \A n \in DOMAIN m_table[s] :
              /\ ~SmallStackEmpty(m_table[s][n])
              /\ SmallStackSize(o_table[s][n]) = Len(live[s][n])
              /\ SmallStackTop(o_table[s][n]) = Last(live[s][n]).v
              /\ \A i \in 1 .. (Len(live[s][n]) - 1) :
                    o_table[s][n].rest[i] = live[s][n][i].v

\* C30 witness: after a swap the child holds two bindings of "x", the top
\* one replaced since, and the parent holds none
C30_Witness ==
    /\ swapped
    /\ Len(live[CHILD]["x"]) = 2
    /\ Last(live[CHILD]["x"]).replaced
    /\ SmallStackSize(m_table[CHILD]["x"]) = 2
    /\ DOMAIN o_table[PARENT] = {}

(***************************************************************************)
(* Claims about the forward overwrite detection and the entry checks,      *)
(* checked under Spec.  det holds the locals of the update analysed last.  *)
(***************************************************************************)
Analysed == det.func # "none"

AnalysedFunc == FuncOf(det.func)

AnalysedUpdate == AnalysedFunc.updates[det.update + 1]

AnalysedKey == FuncKey(det.func, det.update)

\* some recorded self reference may read the location the update writes
MayOverwrite ==
    \E i \in 1 .. Len(det.selfargs) :
        \A d \in 1 .. Len(AnalysedUpdate.args) :
            ~ProvablyDifferent(det.selfargs[i][d], AnalysedUpdate.args[d])

\* the value of the update calls a Func or buffer other than its own Func
ReachesOther ==
    \E fn \in {"g", "h", "in"} : IsCallingFunc(fn, AnalysedUpdate.value)

\* some adjoint aimed at a Func or buffer references the analysed Func
AdjointReferencesSelf ==
    \E p \in DOMAIN det.adj :
        /\ NodeAt(AnalysedUpdate.value, p).op = "call"
        /\ IsCallingFunc(det.func, det.adj[p])

OverwriteErrorRaised ==
    pc = "error" /\ err.kind = "overwrite" /\ err.class = "user"

\* the update f(x, l2) = value, for the examples
IsUpdate(u, l2, value) == u.args = <<X, l2>> /\ u.value = value

TwoSelfPlusG(a, b) == Bin("add", Bin("mul", Const(2), SelfCall(a)), GCall(b))

\* C1: when the analysed update of f uses the reduction variable, its
\* accumulated self-derivative is not the constant 0 or 1, some self reference
\* may read the location the update writes, and the value also calls another
\* Func, the pass has stopped with the overwrite error, and the error names f.
C1_UnsafeOverwriteError ==
    (/\ Analysed
     /\ UpdateUsesRVar(AnalysedUpdate)
     /\ ~(det.selfadj = Const(0) \/ det.selfadj = Const(1))
     /\ MayOverwrite
     /\ ReachesOther)
        => (OverwriteErrorRaised /\ err.func = det.func /\ det.func = "f")

\* f(x, y) = 2 * f(x, y) + g(r) has been analysed and refused
C1_Witness ==
    /\ Analysed
    /\ IsUpdate(AnalysedUpdate, Y, TwoSelfPlusG(Y, Idx("r", 0)))
    /\ det.selfadj = Const(2)
    /\ pc = "error"
    /\ err = OverwriteError(FuncOf("f"))

\* C2: for a scan update like f(x, r+1) = 2*f(x, r) + g(r) (a reduction
\* variable is used, the self-derivative is a constant other than 0 and 1,
\* no adjoint aimed at a call references f, and every recorded self reference
\* provably differs from the write location in some coordinate), the analysis
\* raises no error and the key (f, update index) is flagged as a
\* non-overwriting scan, also when the value calls g.
C2_ScanFlagged ==
    (/\ Analysed
     /\ UpdateUsesRVar(AnalysedUpdate)
     /\ ~(det.selfadj = Const(0) \/ det.selfadj = Const(1))
     /\ ~AdjointReferencesSelf
     /\ ~MayOverwrite)
        => (pc # "error" /\ err = NoErr /\ AnalysedKey \in non_overwriting_scans)

\* f(x, r + 1) = 2 * f(x, r) + g(r) has been analysed, accepted and flagged
C2_Witness ==
    /\ Analysed
    /\ IsUpdate(AnalysedUpdate, Idx("r", 1), TwoSelfPlusG(Idx("r", 0), Idx("r", 0)))
    /\ ReachesOther
    /\ AnalysedKey \in non_overwriting_scans
    /\ pc = "reverse"

\* C3: an update whose accumulated self-derivative is the constant 0 or 1 and
\* in which no adjoint aimed at a Func or buffer references f is accepted: no
\* error is raised for it and its key is not flagged as a non-overwriting scan.
C3_UnitSelfDerivativeAccepted ==
    (/\ Analysed
     /\ (det.selfadj = Const(0) \/ det.selfadj = Const(1))
     /\ ~AdjointReferencesSelf)
        => (pc # "error" /\ err = NoErr /\ AnalysedKey \notin non_overwriting_scans)

\* f(x, y) = f(x, y) + g(r) has been analysed and accepted, and is no scan
C3_Witness ==
    /\ Analysed
    /\ IsUpdate(AnalysedUpdate, Y, Bin("add", SelfCall(Y), GCall(Idx("r", 0))))
    /\ det.selfadj = Const(1)
    /\ AnalysedKey \notin non_overwriting_scans
    /\ pc = "reverse"

\* the integers of an interval with constant ends
PointsOf(iv) == iv.min.o .. iv.max.o

\* two boxes are disjoint when in some coordinate both have constant ends and
\* share no point
BoxesDisjoint(a, b) ==
    \E d \in 1 .. Len(a) :
        /\ a[d].min.b = "c" /\ a[d].max.b = "c"
        /\ b[d].min.b = "c" /\ b[d].max.b = "c"
        /\ PointsOf(a[d]) \cap PointsOf(b[d]) = {}

PureReferencesNothing == ~IsCallingAny(AnalysedFunc.pure)

EarlierBoxesDisjoint ==
    \A j \in 1 .. det.update : BoxesDisjoint(det.boxes[det.update + 1], det.boxes[j])

C4_WitnessRaised ==
    /\ Analysed
    /\ AdjointReferencesSelf
    /\ det.update > 0
    /\ EarlierBoxesDisjoint
    /\ ~PureReferencesNothing
    /\ det.error1

C8_DimensionChecks ==
    /\ (pc # "entry" /\ (adjDims # Len(OutputFunc.args) \/ nBounds # Len(OutputFunc.args)))
          => (pc = "error" /\ err = DimsError /\ err.class = "user")
    /\ err.kind = "dims"
          => (/\ ~is_forward_overwrite_detection_phase
              /\ det = NoDet
              /\ non_overwriting_scans = {}
              /\ adjoint_funcs = EmptyMap)

\* the seed matches the output, the list of bounds does not, and the call has
\* failed
C8_Witness ==
    /\ adjDims = Len(OutputFunc.args)
    /\ nBounds # Len(OutputFunc.args)
    /\ Len(prog.updates) > 0
    /\ pc = "error"
    /\ err = DimsError
    /\ adjoint_funcs = EmptyMap

(***************************************************************************)
(* Claims about the reverse pass, checked under Spec.                      *)
(***************************************************************************)
IsStep(ev) == ev.e = "step"

\* the keys of the update steps processed so far, in order
Steps == LET evs == SelectSeq(log, IsStep) IN [i \in 1 .. Len(evs) |-> evs[i].key]

\* the Func named caller calls the Func named callee in some definition
CallsFunc(caller, callee) ==
    LET func == FuncOf(caller)
    IN  \/ IsCallingFunc(callee, func.pure)
        \/ \E k \in 1 .. Len(func.updates) : IsCallingFunc(callee, func.updates[k].value)

NamesOfFuncs == {FuncNames[i] : i \in 1 .. Len(FuncNames)}

\* the steps of the Func called name among the first n steps
StepsDone(name, n) == {i \in 1 .. n : Steps[i][1] = name}

BoxesComputed == pc = "detect_update" /\ boxes # <<>>

\* C24: when the box of the left-hand side of an update is computed, a
\* reduction variable with (min, extent) is bound to the interval
\* [min, min + extent - 1]: the coordinate r + o of a left-hand side gets
\* the interval [min + o, min + extent - 1 + o].
C24_RVarInterval ==
    BoxesComputed
        => \A k \in 1 .. Len(boxes) : \A d \in 1 .. Len(boxes[k]) :
              LET arg == Funcs[func_id + 1].updates[k].args[d]
              IN  IdxUsesRVar(arg)
                      => boxes[k][d] =
                            Interval(Idx("c", prog.rdom.min + arg.o),
                                     Idx("c", prog.rdom.min + prog.rdom.extent - 1 + arg.o))

\* C28: the box handed to bounds inference has one interval per output
\* dimension, and its i-th interval is (min_i, max_i) of the i-th entry of
\* output_bounds.
C28_OutputBox ==
    pc \in {"stubs", "reverse", "reverse_update", "done"}
        => /\ Len(output_box) = nBounds
           /\ \A i \in 1 .. nBounds :
                 output_box[i] = Interval(Idx("c", OutputBounds[i][1]),
                                          Idx("c", OutputBounds[i][2]))

\* the value differentiated in the step of key
ValueOf(key) ==
    IF key[2] < 0 THEN FuncOf(key[1]).pure ELSE FuncOf(key[1]).updates[key[2] + 1].value

\* the call sites of a value: the paths of its Call nodes
CallSites(value) ==
    LET list == SortExpressions(value, <<>>)
    IN  {list[i] : i \in {j \in 1 .. Len(list) : NodeAt(value, list[j]).op = "call"}}

\* C13 in the pass, for the single-valued Funcs g, f and h: every scatter of
\* a step went, in the first phase, from a self reference into (f, k - 1), or
\* (f, k) for a scan, and in the second phase from another call into
\* (g, last update of g) or (buffer, -1), the first phase before the second;
\* when the pass is over every call site of every step was scattered once.
C13_RoutingInPass ==
    /\ \A i \in 1 .. Len(log) :
          log[i].e = "scatter"
              => LET at == log[i].at
                     n == NodeAt(ValueOf(at), log[i].site)
                     self == n.ct = "halide" /\ n.fn = at[1]
                 IN  /\ (log[i].phase = 1) = self
                     /\ log[i].key =
                           IF self
                           THEN FuncKey(at[1], IF at \in non_overwriting_scans
                                               THEN at[2] ELSE at[2] - 1)
                           ELSE IF n.ct = "image" THEN FuncKey(n.fn, -1)
                           ELSE FuncKey(n.fn, Len(FuncOf(n.fn).updates) - 1)
                     /\ \A j \in 1 .. (i - 1) :
                           (log[j].e = "scatter" /\ log[j].at = at)
                               => log[j].phase <= log[i].phase
    /\ pc = "done"
          => \A s \in 1 .. Len(Steps) : \A p \in CallSites(ValueOf(Steps[s])) :
                Cardinality({i \in 1 .. Len(log) :
                                /\ log[i].e = "scatter"
                                /\ log[i].at = Steps[s]
                                /\ log[i].site = p}) = 1

IsPrefix(q, r) == Len(q) <= Len(r) /\ SubSeq(r, 1, Len(q)) = q

\* the key of the last update of the Func the pass is at
LastKeyHere ==
    LET func == Funcs[func_id + 1] IN FuncKey(func.name, Len(func.updates) - 1)

\* C14 as stated: once allocated, the accumulator of a key is never replaced
\* by another computation; it only gets update definitions appended.
C14_NeverReplaced ==
    [][\A key \in DOMAIN adjoint_funcs :
          /\ key \in DOMAIN adjoint_funcs'
          /\ adjoint_funcs'[key].id = adjoint_funcs[key].id
          /\ IsPrefix(adjoint_funcs[key].updates, adjoint_funcs'[key].updates)
      ]_<<passVars, outsidePass>>

\* C14: every key keeps exactly one accumulator from stub allocation on, but
\* the reverse pass replaces the accumulator of a key by a new computation
\* in two places: the boundary condition replaces the one of (f, last update
\* of f) when the pass reaches f (after the first phase of that update when
\* the key is a scan), and the masking of the previous update replaces the
\* one of (f, k - 1) during the step of update k >= 0.  Everywhere else an
\* accumulator keeps its identity and only gets update definitions appended;
\* the only keys added are the "_unbounded" ones.
C14_ReplacedOnlyByBoundaryAndMask ==
    [][\A key \in DOMAIN adjoint_funcs :
          /\ key \in DOMAIN adjoint_funcs'
          /\ LET old == adjoint_funcs[key]
                 new == adjoint_funcs'[key]
             IN  IF new.id = old.id
                 THEN new.init = old.init /\ IsPrefix(old.updates, new.updates)
                 ELSE \/ /\ new.id = FuncId("boundary", key)
                         /\ key = LastKeyHere
                         /\ \/ pc = "reverse" /\ key \notin non_overwriting_scans
                            \/ /\ pc = "reverse_update"
                               /\ update_id = key[2]
                               /\ key \in non_overwriting_scans
                      \/ /\ new.id = FuncId("mask", key)
                         /\ pc = "reverse_update"
                         /\ update_id >= 0
                         /\ key = FuncKey(Funcs[func_id + 1].name, update_id - 1)
          /\ \A added \in (DOMAIN adjoint_funcs') \ (DOMAIN adjoint_funcs) :
                adjoint_funcs # EmptyMap
                    => added[1] \in {Unbounded(FuncNames[i]) : i \in 1 .. Len(FuncNames)}
      ]_<<passVars, outsidePass>>

\* C14 witness: the pass is over for an f with two updates; the accumulators
\* of (f, 0) and (f, -1) were rebuilt by the masking, the one of (f, 1) by the
\* boundary condition, and g's has received an update definition.
C14_Witness ==
    /\ pc = "done"
    /\ Len(prog.updates) = 2
    /\ adjoint_funcs[FuncKey("f", 1)].id = FuncId("boundary", FuncKey("f", 1))
    /\ adjoint_funcs[FuncKey("f", 0)].id = FuncId("mask", FuncKey("f", 0))
    /\ adjoint_funcs[FuncKey("f", -1)].id = FuncId("mask", FuncKey("f", -1))
    /\ adjoint_funcs[FuncKey("g", -1)].id = FuncId("boundary", FuncKey("g", -1))
    /\ adjoint_funcs[FuncKey("g_unbounded", -1)].updates # <<>>

\* the scatters the log has for the accumulator of key
ScattersTo(lg, key) == {j \in 1 .. Len(lg) : lg[j].e = "scatter" /\ lg[j].key = key}

\* C25: when the step of update k of f re-creates the accumulator of
\* (f, k - 1), by the masking of the previous update or by the alias of a
\* non-overwriting scan, no scatter has been added to that accumulator yet:
\* it has no update definition when the step starts, no scatter of the step
\* comes before the re-creation, and after the step it holds every scatter
\* that was ever made to its key.
C25_NothingDiscarded ==
    [][(pc = "reverse_update" /\ update_id >= 0)
          => LET func == Funcs[func_id + 1]
                 prev == FuncKey(func.name, update_id - 1)
             IN  /\ adjoint_funcs[prev].updates = <<>>
                 /\ ScattersTo(log, prev) = {}
                 /\ adjoint_funcs'[prev].id = FuncId("mask", prev)
                 /\ \A i \in (Len(log) + 1) .. Len(log') :
                       log'[i].e \in {"mask", "recreate"}
                           => /\ log'[i].key = prev
                              /\ \A j \in ScattersTo(log', prev) : i < j
                 /\ Cardinality({u \in DOMAIN adjoint_funcs'[prev].updates :
                                    adjoint_funcs'[prev].updates[u].kind = "scatter"})
                       = Cardinality(ScattersTo(log', prev))
      ]_<<passVars, outsidePass>>

\* C25 witness: the pass is over; in the step of a non-overwriting scan the
\* self reference scattered to the accumulator of the scan, and then the
\* accumulator of the previous update was re-created and masked
C25_Witness ==
    /\ pc = "done"
    /\ \E i, j \in 1 .. Len(log) :
          /\ i < j
          /\ log[i].e = "scatter" /\ log[i].phase = 1
          /\ log[i].at \in non_overwriting_scans
          /\ log[i].key = log[i].at
          /\ log[j].e = "recreate" /\ log[j].at = log[i].at
          /\ log[j].key = FuncKey(log[i].at[1], log[i].at[2] - 1)
          /\ adjoint_funcs[log[j].key].id = FuncId("mask", log[j].key)

\* C25 witness: the pass is over; the accumulator of a previous update was
\* masked and got the scatter of a self reference afterwards
C25_WitnessMasked ==
    /\ pc = "done"
    /\ \E i, j \in 1 .. Len(log) :
          /\ i < j
          /\ log[i].e = "mask"
          /\ log[j].e = "scatter" /\ log[j].key = log[i].key
          /\ log[j].at = log[i].at
          /\ adjoint_funcs[log[i].key].updates # <<>>

\* the events of the step of key, or of the head of key's Func
EventsAt(at) == {i \in 1 .. Len(log) : log[i].at = at}

\* C15 as stated: the boundary condition of (f, last) comes after the whole
\* step of f's last update, and for a scan after all the steps of f.
C15_BoundaryAfterLastUpdate ==
    \A i \in 1 .. Len(log) :
        log[i].e = "boundary"
            => LET key == log[i].key
               IN  /\ \E j \in 1 .. (i - 1) : log[j].e = "step" /\ log[j].key = key
                   /\ \A j \in EventsAt(key) : j <= i
                   /\ key \in non_overwriting_scans
                         => Cardinality(StepsDone(key[1], Len(Steps))) = key[2] + 2
                            /\ \A j \in 1 .. Len(log) : log[j].at[1] = key[1] => j <= i

\* C15: the boundary condition of (f, last update of f) is set up once, when
\* the reverse pass reaches f: after every step of every other computation
\* that calls f, and before the step of f's last update.  When that key is a
\* non-overwriting scan it is set up inside the step of the last update,
\* after the scatters of its first phase and before the re-creation and
\* masking of the previous accumulator, the second phase and the steps of
\* the earlier updates.
C15_BoundaryWhenFuncReached ==
    /\ \A i \in 1 .. Len(log) :
          log[i].e = "boundary"
              => LET key == log[i].key
                     name == key[1]
                 IN  /\ key[2] = Len(FuncOf(name).updates) - 1
                     /\ \A j \in 1 .. Len(log) :
                           (log[j].e = "boundary" /\ log[j].key[1] = name) => j = i
                     /\ \A caller \in NamesOfFuncs :
                           (caller # name /\ CallsFunc(caller, name))
                               => Cardinality({j \in 1 .. (i - 1) :
                                                  log[j].e = "step" /\ log[j].key[1] = caller})
                                      = Len(FuncOf(caller).updates) + 1
                     /\ IF key \in non_overwriting_scans
                        THEN /\ log[i].at = key
                             /\ \A j \in 1 .. Len(log) :
                                   (j # i /\ log[j].at[1] = name)
                                       => (j < i <=> /\ log[j].at = key
                                                     /\ \/ log[j].e = "step"
                                                        \/ log[j].e = "scatter" /\ log[j].phase = 1)
                        ELSE /\ log[i].at = HeadKey(FuncOf(name))
                             /\ \A j \in 1 .. (i - 1) : log[j].at[1] # name
    /\ \A s \in 1 .. Len(Steps) :
          LET last == FuncKey(Steps[s][1], Len(FuncOf(Steps[s][1]).updates) - 1)
          IN  (Steps[s] # last \/ pc = "done" \/ last \notin non_overwriting_scans)
                  => \E i \in 1 .. Len(log) : log[i].e = "boundary" /\ log[i].key = last

\* C15 witness: the pass is over; the last update of f is a scan whose first
\* phase scattered into (f, 1) before the boundary condition of (f, 1), and
\* h's boundary condition came before h's only step.
C15_Witness ==
    /\ pc = "done"
    /\ FuncKey("f", 1) \in non_overwriting_scans
    /\ \E i, j \in 1 .. Len(log) :
          /\ i < j
          /\ log[i] = Event("scatter", FuncKey("f", 1), FuncKey("f", 1), 1, log[i].site)
          /\ log[j] = Event("boundary", FuncKey("f", 1), FuncKey("f", 1), 0, <<>>)
    /\ log[1] = Event("boundary", FuncKey("h", 0), FuncKey("h", -1), 0, <<>>)
    /\ log[2] = Event("step", FuncKey("h", -1), FuncKey("h", -1), 0, <<>>)

\* the buffers some definition of some Func calls
BuffersCalled ==
    {b \in {"in"} :
        \E name \in NamesOfFuncs :
            \/ IsCallingFunc(b, FuncOf(name).pure)
            \/ \E k \in 1 .. Len(FuncOf(name).updates) :
                  IsCallingFunc(b, FuncOf(name).updates[k].value)}

StubsAllocated == pc = "reverse" /\ log = <<>>

\* C16: after stub allocation there is exactly one accumulator for every key
\* (f, k), f a Func of the call graph and -1 <= k <= last update of f, one
\* for every buffer called, keyed (buffer, -1), and no other; the one of
\* (output, last update of output) is the seed, every other one is zero.
C16_StubsAllocated ==
    StubsAllocated
        => /\ DOMAIN adjoint_funcs =
                 UNION {{FuncKey(name, k) : k \in -1 .. (Len(FuncOf(name).updates) - 1)} :
                           name \in NamesOfFuncs}
                     \cup {FuncKey(b, -1) : b \in BuffersCalled}
           /\ \A key \in DOMAIN adjoint_funcs :
                 /\ adjoint_funcs[key].updates = <<>>
                 /\ adjoint_funcs[key].init =
                       IF key = FuncKey("h", Len(FuncOf("h").updates) - 1)
                       THEN "seed" ELSE "zero"
                 /\ \A other \in DOMAIN adjoint_funcs :
                       adjoint_funcs[other].id = adjoint_funcs[key].id => other = key

\* C16 witness: the stubs of a program whose f has two updates: five keys of
\* Funcs and the key of the buffer, (h, -1) the seed and (f, 1) zero.
C16_Witness ==
    /\ StubsAllocated
    /\ Len(prog.updates) = 2
    /\ Cardinality(DOMAIN adjoint_funcs) = 6
    /\ adjoint_funcs[FuncKey("h", -1)].init = "seed"
    /\ adjoint_funcs[FuncKey("f", 1)].init = "zero"
    /\ adjoint_funcs[FuncKey("in", -1)].init = "zero"

\* adjoints_used_by_others of the analysed update
UsedByOthers == AdjointsUsedByOthers(AnalysedFunc, AnalysedUpdate.value, det.adj)

\* C19 as stated: a key is marked as a non-overwriting scan only when the
\* adjoint of its update is not used by any other Func or buffer.
C19_ScanOnlyWhenUnused ==
    (Analysed /\ AnalysedKey \in non_overwriting_scans) => ~UsedByOthers

\* C19: the key of the analysed update is marked as a non-overwriting scan
\* exactly when no error was raised for it, the update uses a reduction
\* variable, its accumulated self-derivative is not the constant 0 or 1, and
\* every recorded self reference provably differs from the write location in
\* some coordinate; whether the adjoint is used by another Func or buffer
\* plays no part in the marking.
C19_ScanMarkedWhenProven ==
    Analysed
        => (AnalysedKey \in non_overwriting_scans
                <=> /\ err = NoErr
                    /\ UpdateUsesRVar(AnalysedUpdate)
                    /\ ~AllZeroOrOne(det.selfadj)
                    /\ ~MayOverwrite)

\* C19 witness: f(x, r + 1) = 2 * f(x, r) + g(r) is marked although the
\* adjoint of the call of g is used outside f.
C19_Witness ==
    /\ Analysed
    /\ UsedByOthers
    /\ det.selfadj = Const(2)
    /\ ~MayOverwrite
    /\ AnalysedKey \in non_overwriting_scans
    /\ err = NoErr

(***************************************************************************)
(* Claims about the expression-level traversal, checked under SpecExpr.    *)
(***************************************************************************)
\* the value of an expression at the sample point
RECURSIVE Eval(_)
Eval(e) ==
    CASE e.op = "const" -> e.c
      [] e.op = "seed" -> e.i
      [] e.op = "call" -> leaf_values[e.fn]
      [] e.op = "add" -> Eval(e.a) + Eval(e.b)
      [] e.op = "sub" -> Eval(e.a) - Eval(e.b)
      [] e.op = "mul" -> Eval(e.a) * Eval(e.b)
      [] e.op = "min" -> IF Eval(e.a) <= Eval(e.b) THEN Eval(e.a) ELSE Eval(e.b)
      [] e.op = "max" -> IF Eval(e.a) >= Eval(e.b) THEN Eval(e.a) ELSE Eval(e.b)
      [] e.op = "select" ->
           IF (IF e.c.op = "le" THEN Eval(e.c.a) <= Eval(e.c.b)
                                ELSE Eval(e.c.a) >= Eval(e.c.b))
           THEN Eval(e.t) ELSE Eval(e.f)

\* the nodes reachable from node id
RECURSIVE ReachableFrom(_)
ReachableFrom(id) ==
    IF IsOperation(dag[id])
    THEN {id} \cup ReachableFrom(dag[id].a) \cup ReachableFrom(dag[id].b)
    ELSE {id}

\* the nodes reachable from the output expressions of the step
Reachable == UNION {ReachableFrom(output_exprs[i]) : i \in 1 .. Len(output_exprs)}

\* the seeds of the components 1 .. i whose output expression is node id
RECURSIVE SeedsOf(_, _)
SeedsOf(id, i) ==
    IF i = 0 THEN 0
    ELSE SeedsOf(id, i - 1) + (IF output_exprs[i] = id THEN Eval(SeedAdjoint(i)) ELSE 0)

\* the adjoint a node is owed: its seed if it is an output expression, plus
\* one contribution of every reachable consumer (a node c, c + 1, ... after
\* it) for every operand slot the node fills
RECURSIVE OwedAdjoint(_)
RECURSIVE OwedFrom(_, _)
OwedFrom(id, c) ==
    IF c > Len(dag) THEN 0
    ELSE OwedFrom(id, c + 1)
         + (IF c \in Reachable /\ IsOperation(dag[c])
            THEN LET pushed == Contributions(dag, dag[c], Const(OwedAdjoint(c)))
                 IN  (IF dag[c].a = id THEN Eval(pushed[1]) ELSE 0)
                     + (IF dag[c].b = id THEN Eval(pushed[2]) ELSE 0)
            ELSE 0)

OwedAdjoint(id) == SeedsOf(id, Len(output_exprs)) + OwedFrom(id, id + 1)

\* visit i found node's adjoint complete, and is the only visit of the node
\* in its traversal, after the visits of all the node's consumers
VisitInOrder(i) ==
    LET v == visits[i]
    IN  /\ v.had
        /\ Eval(v.adjoint) = OwedAdjoint(v.node)
        /\ \A j \in 1 .. (i - 1) :
              visits[j].phase1 = v.phase1
                  => /\ visits[j].node # v.node
                     /\ IsOperation(dag[v.node])
                           => visits[j].node \notin {dag[v.node].a, dag[v.node].b}

\* a node belongs to two tuple components
SharedByComponents ==
    \E i, j \in 1 .. Len(output_exprs) :
        i # j /\ ReachableFrom(output_exprs[i]) \cap ReachableFrom(output_exprs[j]) # {}

IsSelfCall(id) == dag[id].op = "call" /\ dag[id].fn = StepFunc.name

\* the accumulator a call site has to be scattered into
ExpectedKey(id) ==
    IF IsSelfCall(id)
    THEN FuncKey(StepFunc.name, IF step.scan THEN step.k ELSE step.k - 1)
    ELSE FuncKey(dag[id].fn, Len(FuncOf(dag[id].fn).updates) - 1)

\* every scatter so far went to the right accumulator in the right phase, the
\* first phase before the second
ScatterRouting ==
    \A i \in 1 .. Len(scatters) :
        LET sct == scatters[i]
        IN  /\ sct.phase1 = IsSelfCall(sct.node)
            /\ sct.key = ExpectedKey(sct.node)
            /\ \A j \in 1 .. (i - 1) : scatters[j].phase1 \/ ~sct.phase1

TimesScattered(id) == Cardinality({i \in 1 .. Len(scatters) : scatters[i].node = id})

\* C13: in an update step the self-reference phase runs before the other
\* phase; a call of f to itself is scattered only in the first phase and only
\* into (f, k - 1), or (f, k) for a non-overwriting scan; every other call is
\* scattered only in the second phase and only into its target's accumulator;
\* and when the step is over every call site has been scattered exactly once.
C13_ScatteredOncePerStep ==
    /\ ScatterRouting
    /\ epc = "done"
          => \A id \in Reachable : dag[id].op = "call" => TimesScattered(id) = 1

\* C13, the part the code keeps: the routing and the order of the phases
\* hold always, and every call site is scattered once when no node belongs
\* to two tuple components.
C13_RoutingHolds ==
    /\ ScatterRouting
    /\ (epc = "done" /\ ~SharedByComponents)
          => \A id \in Reachable : dag[id].op = "call" => TimesScattered(id) = 1

\* C13: the step is over for the tuple (g(x), g(x) + f(x, y)): the call g(x)
\* belongs to both components and was scattered twice in the second phase.
C13_SharedCallScatteredTwice ==
    /\ epc = "done"
    /\ output_exprs = <<2, 3>>
    /\ dag[3] = Node("add", 2, 1)
    /\ TimesScattered(2) = 2
    /\ TimesScattered(1) = 1

\* C17: within a traversal of an update step every node reachable from the
\* output expressions of all tuple components is visited at most once, after
\* all its consumers, and when it is visited its adjoint entry exists and
\* holds the sum of the contributions of all its consumers in the step.
C17_VisitedOnceWithFullAdjoint ==
    \A i \in 1 .. Len(visits) : VisitInOrder(i)

\* C17, the part the code keeps: the property holds in every step in which no
\* node belongs to two tuple components.
C17_HoldsWithoutSharedNodes ==
    ~SharedByComponents => \A i \in 1 .. Len(visits) : VisitInOrder(i)

\* C17: a node with two consumers inside one component has been visited once,
\* with the sum of both contributions.
C17_DiamondVisitedOnce ==
    /\ epc = "done"
    /\ output_exprs = <<4>>
    /\ dag[4] = Node("mul", 3, 3)
    /\ \A i \in 1 .. Len(visits) : VisitInOrder(i)
    /\ \E i \in 1 .. Len(visits) :
          visits[i].node = 3 /\ Eval(visits[i].adjoint) # 0

\* C18: for min(a, b) and max(a, b) the adjoint goes to the winning operand
\* only, to the first operand when a = b: one operand receives the adjoint
\* and the other receives zero, whatever the operands' values.
C18_MinMaxWinnerOnly ==
    \A i \in 1 .. Len(visits) :
        LET v == visits[i]
            n == dag[v.node]
            a == Eval(ExprOf(dag, n.a))
            b == Eval(ExprOf(dag, n.b))
            firstWins == IF n.op = "min" THEN a <= b ELSE a >= b
        IN  n.op \in {"min", "max"}
                => /\ Eval(v.pushed[1]) = (IF firstWins THEN Eval(v.adjoint) ELSE 0)
                   /\ Eval(v.pushed[2]) = (IF firstWins THEN 0 ELSE Eval(v.adjoint))

\* C18, the part the code keeps: the property holds whenever the operands
\* differ.
C18_HoldsWithoutTie ==
    \A i \in 1 .. Len(visits) :
        LET v == visits[i]
            n == dag[v.node]
            a == Eval(ExprOf(dag, n.a))
            b == Eval(ExprOf(dag, n.b))
            firstWins == IF n.op = "min" THEN a <= b ELSE a >= b
        IN  (n.op \in {"min", "max"} /\ a # b)
                => /\ Eval(v.pushed[1]) = (IF firstWins THEN Eval(v.adjoint) ELSE 0)
                   /\ Eval(v.pushed[2]) = (IF firstWins THEN 0 ELSE Eval(v.adjoint))

(***************************************************************************)
(* Claims about the canonicalization of a scatter, checked under           *)
(* SpecScatter.                                                            *)
(***************************************************************************)
Canonicalized == spc = "done"

\* the reduction variables the update is left with
RVarsLeft == RVarMaps(sc.lhs, sc.adjoint)

\* the bound of the argument n of k, as the (min, extent) of a variable
BoundOfN == BoundPair(site.cur_bounds[1])

\* C5 as stated: for k(n) = f(g(n), n) the update generated for the
\* accumulator of f scatters through a reduction variable that ranges over
\* the inferred bound of k.
C5_ScattersThroughRVar ==
    (Canonicalized /\ site \in PathologicalSites)
        => /\ RVarsLeft # {}
           /\ \E k \in DOMAIN sc.merged_bounds : sc.merged_bounds[k] = BoundOfN

\* C5, amended: for k(n) = f(g(n), n) the coordinate n is solved as the pure
\* variable y of f, and y replaces n in g(n) and in the adjoint: the update
\* is f'(g(y), y) += k'(y), with no reduction variable.  A reduction variable
\* over the bound of k is introduced when no coordinate is solved for n, as
\* for k(n) = f(g(n)), whose update is f'(g(r)) += k'(r).
C5_SolvedThroughOtherCoordinate ==
    /\ (Canonicalized /\ site \in PathologicalSites)
          => /\ sc.lhs = <<GOf(VarNode(YName)), VarNode(YName)>>
             /\ sc.adjoint = DK(<<VarNode(YName)>>)
             /\ RVarsLeft = {}
             /\ sc.merged_bounds = <<>>
    /\ (Canonicalized /\ site \in OpaqueSites)
          => /\ sc.lhs = <<GOf(RVarNode(sc.merged_r, 0))>>
             /\ sc.adjoint = DK(<<RVarNode(sc.merged_r, 0)>>)
             /\ sc.merged_bounds = <<BoundOfN>>

\* the call f(g(n), n) of k(n) has been canonicalized
C5_Witness ==
    /\ Canonicalized
    /\ site \in PathologicalSites
    /\ sc.canonicalized = <<FALSE, TRUE>>
    /\ sc.lhs[1] = GOf(VarNode(YName))

\* the coordinate 1 of the call has the shape s * r.x + r.y with r.y over
\* [0, s)
DownsampleShape ==
    /\ site \in DownsampleSites
    /\ \E scale \in Scales :
          /\ site.lhs[1] \in ScaledForms(scale)
          /\ site.user_doms[1].vars[2] = [min |-> Const(0), extent |-> Const(scale)]

ScaleOf == CHOOSE scale \in Scales : site.lhs[1] \in ScaledForms(scale)

XOverScale == Bin("div", VarNode(XName), Const(ScaleOf))

\* C6: a scatter whose write address has the shape s * r.x + r.y with r.y
\* over [0, s) is rewritten to the pure variable x of the target, with r.x
\* replaced by x / s in the adjoint and in the other write coordinates;
\* f(s * r.x + r.y) = g(r.x) + h(s * r.x + r.y) becomes the pure update
\* f(x) = g(x / s) + h(x), with no reduction variable left.
C6_DownsampleRewrite ==
    (Canonicalized /\ DownsampleShape)
        => /\ sc.lhs[1] = VarNode(XName)
           /\ sc.adjoint = SubstituteExpr(Rx, XOverScale,
                               SubstituteExpr(site.lhs[1], VarNode(XName), site.adjoint))
           /\ \A j \in DOMAIN sc.lhs :
                 j # 1 => sc.lhs[j] = SubstituteExpr(Rx, XOverScale, site.lhs[j])
           /\ Len(site.lhs) = 1
                 => /\ sc.adjoint = Bin("add", GOf(XOverScale), HOf(VarNode(XName)))
                    /\ RVarsLeft = {}
                    /\ sc.merged_bounds = <<>>

\* the one-coordinate example is rewritten as the claim says
C6_ExampleRewritten ==
    (Canonicalized /\ DownsampleShape /\ Len(site.lhs) = 1)
        => /\ sc.lhs = <<VarNode(XName)>>
           /\ sc.adjoint = Bin("add", GOf(XOverScale), HOf(VarNode(XName)))
           /\ RVarsLeft = {}

\* C7: a second run of the pass on the same call produces a structurally
\* equal update; in particular the merged reduction domain lists its
\* variables in the same order.
C7_SecondRunEqual ==
    (Canonicalized /\ run = 2) => Result(sc) = first

\* the value of an index expression of variables and constants
RECURSIVE ValueAt(_, _)
ValueAt(e, env) ==
    IF e.op = "var" THEN env[e.name]
    ELSE IF e.op = "const" THEN e.c
    ELSE IF e.op = "add" THEN ValueAt(e.a, env) + ValueAt(e.b, env)
    ELSE IF e.op = "sub" THEN ValueAt(e.a, env) - ValueAt(e.b, env)
    ELSE ValueAt(e.a, env) * ValueAt(e.b, env)

\* the variable of the caller a coordinate is an expression of
CallerVariables(i) == GatherVariables(site.lhs[i], CurrentArgs(site))

\* every coordinate of the call is an invertible expression of a single pure
\* variable of the caller, a different one for every coordinate
InvertibleCoordinates ==
    /\ site.user_doms = <<>>
    /\ \A i \in DOMAIN site.lhs :
          /\ Cardinality(CallerVariables(i)) = 1
          /\ RVarMaps(<<site.lhs[i]>>, Const(0)) = {}
          /\ \A v \in CallerVariables(i) :
                SolveInverse(NewArg(i - 1), site.lhs[i], v).solved
          /\ \A j \in DOMAIN site.lhs : j # i => CallerVariables(j) # CallerVariables(i)

\* every pure variable of the caller is the variable of some coordinate
EveryCallerVariableUsed ==
    CurrentArgs(site) = UNION {CallerVariables(i) : i \in DOMAIN site.lhs}

\* the pure variables of the target
TargetNames == {site.target_args[i] : i \in DOMAIN site.target_args}

\* the points of the target the check goes over
TargetPoints == [TargetNames -> 0 .. (MaxBound + MaxShift)]

\* the update writes the pure variables of the target, has no reduction
\* variable, and reads the adjoint of the caller, at every target point t,
\* at the caller point whose call coordinates are t
InvertedUpdate ==
    /\ sc.lhs = [i \in DOMAIN site.target_args |-> VarNode(site.target_args[i])]
    /\ RVarsLeft = {}
    /\ sc.merged_bounds = <<>>
    /\ sc.rdom_predicate = {}
    /\ sc.adjoint.op = "call"
    /\ sc.adjoint.fn = "d_k"
    /\ Len(sc.adjoint.args) = Len(site.cur_args)
    /\ \A a \in DOMAIN sc.adjoint.args :
          VariablesOf(sc.adjoint.args[a]) \subseteq TargetNames
    /\ \A t \in TargetPoints :
          LET caller == [v \in CurrentArgs(site) |->
                            ValueAt(sc.adjoint.args[CHOOSE a \in DOMAIN site.cur_args :
                                                       site.cur_args[a] = v], t)]
          IN  \A i \in DOMAIN site.lhs :
                  ValueAt(site.lhs[i], caller) = t[site.target_args[i]]

RangeOf(bound) ==
    LET lo == ValueAt(bound.min, EmptyMap)
    IN  lo .. (lo + ValueAt(bound.extent, EmptyMap) - 1)

\* the coordinates of the call that are a reduction variable of the update
RVarCoordinates == {d \in DOMAIN site.lhs : IsRVar(site.lhs[d])}

\* C23: for a non-overwriting scan the flipped coordinate max - r, as a
\* function of the reduction variable r of the merged domain, maps the range
\* [min, min + extent - 1] of r one-to-one onto itself, for every min.
C23_FlipOntoRange ==
    (Canonicalized /\ site.scan)
        => \A d \in RVarCoordinates :
              \A name \in VariablesOf(sc.lhs[d]) :
                  LET range == RangeOf(sc.merged_bounds[name[3] + 1])
                  IN  {ValueAt(sc.lhs[d], name :> v) : v \in range} = range

\* C26: for k(n) = f(n, n) the update writes only points of f whose two
\* coordinates are equal.
C26_DiagonalOnly ==
    (Canonicalized /\ site \in DiagonalSites)
        => \A point \in [VariablesOf(sc.lhs[1]) \cup VariablesOf(sc.lhs[2])
                             -> 0 .. MaxBound] :
              ValueAt(sc.lhs[1], point) = ValueAt(sc.lhs[2], point)

\* the reduction variables of the live ReductionDomains
LiveRVars ==
    UNION {{<<"r", d, j>> : j \in 0 .. (Len(rdoms[d].vars) - 1)} : d \in DOMAIN rdoms}

\* C29: cmp_rv is a strict weak ordering of the reduction variables: it is
\* irreflexive, never holds both ways, and is transitive.
C29_CmpRvStrictWeakOrdering ==
    spc = "merge"
        => /\ \A a \in LiveRVars : ~CmpRv(rdoms, a, a)
           /\ \A a, b \in LiveRVars : CmpRv(rdoms, a, b) => ~CmpRv(rdoms, b, a)
           /\ \A a, b, k \in LiveRVars :
                 (CmpRv(rdoms, a, b) /\ CmpRv(rdoms, b, k)) => CmpRv(rdoms, a, k)

\* the scatter was folded into the latest definition of the accumulator
Folded == Len(func_to_update.updates) = Len(prev_func.updates)

\* the write address and the domain of the latest definition of the
\* accumulator when the call was visited
LatestLhs ==
    IF prev_func.updates = <<>> THEN PureArgs(site) ELSE Last(prev_func.updates).lhs

LatestRVars ==
    IF prev_func.updates = <<>> THEN <<>> ELSE Last(prev_func.updates).rvars

\* the adjoint as it is added by a fold: over the reduction variables of the
\* latest definition
FoldedAdjoint ==
    IF LatestRVars = <<>> THEN sc.adjoint
    ELSE UseRDomOf(sc.adjoint, sc.merged_r, Last(prev_func.updates).rdom,
                   Len(sc.merged_bounds))

C21_WitnessAppended ==
    /\ Canonicalized
    /\ ~Folded
    /\ sc.lhs = LatestLhs
    /\ sc.merged_bounds # <<>>
    /\ LatestRVars # <<>>

\* the reduction variables that were in the call before the canonicalization
OriginalRVars == RVarMaps(site.lhs, site.adjoint)

\* C22: the merged reduction domain has every reduction variable of the
\* canonicalized write address and adjoint exactly once, with its min and
\* extent, the variables the canonicalization introduced before the ones
\* that were there before it, and its predicate is the conjunction of the
\* predicates of the domains of these variables.
C22_MergedDomain ==
    [][spc = "merge"
          => LET occurring == RVarMaps(sc.lhs, sc.adjoint)
                 names == sc'.var_names
             IN  /\ {names[k] : k \in DOMAIN names} = occurring
                 /\ Len(names) = Cardinality(occurring)
                 /\ Len(sc'.merged_bounds) = Len(names)
                 /\ \A k \in DOMAIN names :
                       /\ sc'.merged_bounds[k].min
                             = ReductionVariableOf(rdoms, names[k]).min
                       /\ sc'.merged_bounds[k].extent
                             = ReductionVariableOf(rdoms, names[k]).extent
                 /\ \A i, j \in DOMAIN names :
                       (names[i] \in OriginalRVars /\ names[j] \notin OriginalRVars)
                           => j < i
                 /\ sc'.rdom_predicate =
                       {ReferenceMerged(rdoms[name[2]].pred, names, sc'.merged_r, 0)
                           : name \in occurring} \ {Const(1)}
                 /\ RVarMaps(sc'.lhs, sc'.adjoint) =
                       {RVarNode(sc'.merged_r, k - 1).name : k \in DOMAIN names}
      ]_<<scatVars, outsideScatter>>

\* C22 witness: the merged domain of the call f(r.x) with the adjoint d_k(n)
\* under r.where(r.x < 1): the variable made for n first, then r.x, with the
\* predicate over the merged variable
C22_Witness ==
    /\ spc = "substitute_back"
    /\ Len(sc.var_names) = 2
    /\ sc.var_names[1] \notin OriginalRVars
    /\ sc.var_names[2] = Rx.name
    /\ sc.rdom_predicate = {Bin("lt", RVarNode(sc.merged_r, 1), Const(1))}

\* C27: when a scatter whose merged reduction domain has a predicate is
\* folded into an update definition, the definition it was folded into is
\* restricted by that predicate.
C27_FoldKeepsPredicate ==
    (Canonicalized /\ Folded /\ sc.rdom_predicate # {})
        => \A q \in sc.rdom_predicate :
              UseRDomOf(q, sc.merged_r, Last(prev_func.updates).rdom,
                        Len(sc.merged_bounds))
                  \in Last(func_to_update.updates).pred

(***************************************************************************)
(* The specifications.                                                     *)
(***************************************************************************)
vars == <<scopeVars, passVars, scatVars, exprVars>>

InitScope == ScopeInit /\ PassIdle /\ ScatterIdle /\ ExprIdle

SpecScope == InitScope /\ [][ScopeNext]_vars

Init == PassInit /\ ScopeIdle /\ ScatterIdle /\ ExprIdle

Next == PassNext

Spec == Init /\ [][Next]_vars

InitScatter == ScatterInit /\ ScopeIdle /\ PassIdle /\ ExprIdle

SpecScatter == InitScatter /\ [][ScatterNext]_vars

InitExpr == ExprInit /\ ScopeIdle /\ PassIdle /\ ScatterIdle

SpecExpr == InitExpr /\ [][ExprNext]_vars

====
